---- MODULE Spec2Model ----
(***************************************************************************)
(* Model of gn's rust-project.json writer (src/gn/rust_project_writer.cc): *)
(* the discovery scan of RenderJSON, the recursive AddCrate resolution,    *)
(* the synthetic sysroot crates and WriteCrates.                            *)
(*                                                                         *)
(* Strings the code inspects (compiler arguments, environment entries)    *)
(* are sequences of tokens, so that prefix tests, substr and splitting are *)
(* computed; strings the code only copies or compares are TLA+ strings.    *)
(***************************************************************************)
EXTENDS Integers, Sequences, FiniteSets, TLC

VARIABLES
    all_targets,     \* RenderJSON's all_targets: target id -> Target
    pc,              \* position of RunAndWriteFiles / RenderJSON
    scan_i,          \* next position of the discovery loop over all_targets
    pending,         \* keys of lookup the generation loop has not reached yet
    lookup,          \* CrateInfoMap: crate root -> CrateInfo
    sysroot_lookup,  \* SysrootIndexMap: sysroot -> (crate name -> index)
    crate_list,      \* CrateList
    stack,           \* the active AddCrate calls, innermost last
    out,             \* what WriteCrates has written to rust_project
    probe            \* argument and result of a function applied on its own

vars == <<all_targets, pc, scan_i, pending, lookup, sysroot_lookup,
          crate_list, stack, out, probe>>

----------------------------------------------------------------------------
\* Bounds of the model.

\* Number of resolved targets of a build graph.
NumTargets == 3
\* Number of distinct crate roots the targets may name.
NumRoots == 3
\* Most link dependencies one target declares.
MaxDeps == 2
\* Number of targets of the graphs drawn for GetRustDeps on its own.
NumDepTargets == 4
\* Longest compiler-argument list drawn for the argument functions.
MaxArgs == 3
\* Longest crate list drawn for WriteCrates on its own.
MaxCrates == 2

Min(a, b) == IF a < b THEN a ELSE b

\* An absent and a present std::optional.
None == [has |-> FALSE, val |-> <<>>]
Some(v) == [has |-> TRUE, val |-> v]

\* The crate root (a SourceFile) number i.
RootPath(i) == <<"//crate", ToString(i), "/src/", "lib.rs">>
Roots == {RootPath(i) : i \in 1..NumRoots}

\* Labels, crate names and output files of the targets, by target id.
TargetLabel(id) == <<"//pkg:target", ToString(id)>>
CrateName(id) == <<"crate_name", ToString(id)>>
OutputFileOf(id) == <<"obj/pkg/libtarget", ToString(id), ".so">>

default_toolchain == "//toolchain:default"
other_toolchain == "//toolchain:host"
Toolchains == {default_toolchain, other_toolchain}

kRsToolMacro == "rust_macro"
kRsToolRlib == "rust_rlib"
kRsToolBin == "rust_bin"

\* Target::IsBinary.
IsBinary(t) ==
    t.output_type \in {"executable", "shared_library", "loadable_module",
                       "static_library", "source_set", "rust_library",
                       "rust_proc_macro"}

\* target->source_types_used().RustSourceUsed()
RustSourceUsed(t) == t.rust

----------------------------------------------------------------------------
\* UniqueVector<SourceFile>::push_back: append unless already present.
PushBackUnique(v, x) ==
    IF \E k \in 1..Len(v) : v[k] = x THEN v ELSE Append(v, x)

RECURSIVE GetRustDeps(_, _)
RECURSIVE GetRustDepsLoop(_, _, _)

RECURSIVE GetRustDepsLoop_Transitive(_, _, _)
\* GetRustDeps' loop that also expands a Rust dependency to find its own
\* dependencies.
GetRustDepsLoop_Transitive(deps, k, rust_deps) ==
    IF k > Len(deps) THEN rust_deps
    ELSE LET dep == all_targets[deps[k]]
             acc == IF RustSourceUsed(dep)
                       THEN GetRustDeps(deps[k],
                                PushBackUnique(rust_deps, dep.crate_root))
                    ELSE IF dep.output_type = "group"
                       THEN GetRustDeps(deps[k], rust_deps)
                    ELSE rust_deps
         IN  GetRustDepsLoop_Transitive(deps, k + 1, acc)

\* The loop of GetRustDeps over the linked deps, from position k on.
GetRustDepsLoop(deps, k, rust_deps) ==
    IF k > Len(deps) THEN rust_deps
    ELSE LET dep == all_targets[deps[k]]
             acc == IF RustSourceUsed(dep)
                       THEN PushBackUnique(rust_deps, dep.crate_root)
                    ELSE IF dep.output_type = "group"
                       THEN GetRustDeps(deps[k], rust_deps)
                    ELSE rust_deps
         IN  GetRustDepsLoop(deps, k + 1, acc)

\* GetRustDeps(target, &rust_deps): the Rust deps of a target, groups expanded.
GetRustDeps(target, rust_deps) ==
    GetRustDepsLoop(all_targets[target].linked_deps, 1, rust_deps)

----------------------------------------------------------------------------
RECURSIVE ExtractCompilerArgsLoop(_, _, _)
ExtractCompilerArgsLoop(cfgs, k, args) ==
    IF k > Len(cfgs) THEN args
    ELSE ExtractCompilerArgsLoop(cfgs, k + 1, args \o cfgs[k].rustflags)

\* ExtractCompilerArgs: the rustflags of every ConfigValues of the target.
ExtractCompilerArgs(target) ==
    ExtractCompilerArgsLoop(all_targets[target].config_values, 1, <<>>)

RECURSIVE FindArgValueLoop(_, _, _)
FindArgValueLoop(arg, args, k) ==
    IF k > Len(args) THEN None
    ELSE IF args[k] = arg /\ k + 1 <= Len(args) THEN Some(args[k + 1])
    ELSE FindArgValueLoop(arg, args, k + 1)

\* FindArgValue: the argument after the first `arg` that has a successor.
FindArgValue(arg, args) == FindArgValueLoop(arg, args, 1)

\* std::string::compare(0, prefix.size(), prefix) == 0
StartsWith(arg, prefix) ==
    SubSeq(arg, 1, Min(Len(prefix), Len(arg))) = prefix

\* std::string::substr(pos), pos counted from 0.
Substr(arg, pos) == SubSeq(arg, pos + 1, Len(arg))

RECURSIVE FindArgValueAfterPrefixLoop(_, _, _)
FindArgValueAfterPrefixLoop(prefix, args, k) ==
    IF k > Len(args) THEN None
    ELSE IF StartsWith(args[k], prefix)
       THEN Some(Substr(args[k], Len(prefix)))
    ELSE FindArgValueAfterPrefixLoop(prefix, args, k + 1)

\* FindArgValueAfterPrefix: the rest of the first argument with the prefix.
FindArgValueAfterPrefix(prefix, args) ==
    FindArgValueAfterPrefixLoop(prefix, args, 1)

RECURSIVE FindAllArgValuesAfterPrefixLoop(_, _, _, _)
FindAllArgValuesAfterPrefixLoop(prefix, args, k, values) ==
    IF k > Len(args) THEN values
    ELSE FindAllArgValuesAfterPrefixLoop(prefix, args, k + 1,
             IF StartsWith(args[k], prefix)
                THEN Append(values, Substr(args[k], Len(prefix)))
                ELSE values)

\* FindAllArgValuesAfterPrefix: the rest of every argument with the prefix.
FindAllArgValuesAfterPrefix(prefix, args) ==
    FindAllArgValuesAfterPrefixLoop(prefix, args, 1, <<>>)

\* The tokens of the arguments AddCrate looks for.
ArgTarget == <<"--target">>
ArgEdition == <<"--edition">>
PrefixEdition == <<"--edition", "=">>
PrefixCfg == <<"--cfg", "=">>

\* AddCrate's compiler_target.
CompilerTargetOf(compiler_args) == FindArgValue(ArgTarget, compiler_args)

\* AddCrate's edition when the standalone `--edition` is looked for first.
EditionOf_FlagFirst(compiler_args) ==
    LET edition == FindArgValue(ArgEdition, compiler_args)
        e2 == IF ~edition.has
                 THEN FindArgValueAfterPrefix(PrefixEdition, compiler_args)
              ELSE edition
    IN  IF e2.has THEN e2.val ELSE <<"2015">>

\* AddCrate's edition, with the value_or("2015") of the Crate construction.
EditionOf(compiler_args) ==
    LET edition == FindArgValueAfterPrefix(PrefixEdition, compiler_args)
        e2 == IF ~edition.has THEN FindArgValue(ArgEdition, compiler_args)
              ELSE edition
    IN  IF e2.has THEN e2.val ELSE <<"2015">>

----------------------------------------------------------------------------
\* Crate::Crate(root, targets, gen_dir, index, name, label, edition)
Crate(root, targets, gen_dir, index, name, label, edition) ==
    [root |-> root, targets |-> targets, gen_dir |-> gen_dir,
     index |-> index, name |-> name, label |-> label, edition |-> edition,
     compiler_args |-> <<>>, compiler_target |-> None, configs |-> <<>>,
     deps |-> <<>>, proc_macro_path |-> None, rustenv |-> <<>>]

\* Crate::AddConfigItem
AddConfigItem(crate, cfg) == [crate EXCEPT !.configs = Append(@, cfg)]

\* Crate::AddDependency
AddDependency(crate, index, name) ==
    [crate EXCEPT !.deps = Append(@, [crate |-> index, name |-> name])]

\* Crate::AddRustenv: the environment is a map, a key is recorded once.
AddRustenv(crate, key, value) ==
    IF \E k \in 1..Len(crate.rustenv) : crate.rustenv[k][1] = key
       THEN crate
       ELSE [crate EXCEPT !.rustenv = Append(@, <<key, value>>)]

\* The state of a moved-from std::vector (move construction empties it).
MovedFrom(v) == <<>>

\* crate_list with its first element (crate_list.front()) replaced.
SetBack_Front(list, crate) == [list EXCEPT ![1] = crate]

\* crate_list with its last element (crate_list.back()) replaced.
SetBack(list, crate) == [list EXCEPT ![Len(list)] = crate]

----------------------------------------------------------------------------
\* The built-in crates of a sysroot and their dependencies on each other.
\* sysroot_crates in alphabetical order.
sysroot_crates_Sorted ==
    <<"alloc", "core", "panic_abort", "panic_unwind",
      "proc_macro", "std", "test", "unwind">>

sysroot_crates ==
    <<"std", "core", "alloc", "panic_unwind",
      "proc_macro", "test", "panic_abort", "unwind">>

sysroot_deps_map ==
    [c \in {"alloc", "std"} |->
        IF c = "alloc" THEN <<"core">>
        ELSE <<"alloc", "core", "panic_abort", "unwind">>]

\* build_dir as an absolute path, as FilePathToUTF8(rebased_out_dir) gives it.
rebased_out_dir == "/abs/out/"

\* std::unordered_map::operator[]: the entry of key, created with `init` if
\* the map has none.
MapWith(m, key, init) ==
    IF key \in DOMAIN m THEN m
    ELSE [k \in DOMAIN m \cup {key} |-> IF k = key THEN init ELSE m[k]]

EmptyMap == [k \in {} |-> 0]

RECURSIVE AddSysrootCrate(_, _, _)
RECURSIVE AddSysrootCrateDeps(_, _, _, _)
RECURSIVE AddSysrootCrateEdges(_, _, _)

\* The first loop of AddSysrootCrate left out: no dependency is added first.
AddSysrootCrateDeps_None(deps, k, current_sysroot, st) == st

\* The first loop of AddSysrootCrate: the crates this one depends on.
AddSysrootCrateDeps(deps, k, current_sysroot, st) ==
    IF k > Len(deps) THEN st
    ELSE AddSysrootCrateDeps(deps, k + 1, current_sysroot,
                             AddSysrootCrate(deps[k], current_sysroot, st))

\* The second loop of AddSysrootCrate: the edges of the new crate.  st.tbl is
\* sysroot_crate_lookup, st.list the crate list whose back is the new crate.
AddSysrootCrateEdges(deps, k, st) ==
    IF k > Len(deps) THEN st
    ELSE LET tbl == MapWith(st.tbl, deps[k], 0)
             idx == tbl[deps[k]]
             crate == AddDependency(st.list[Len(st.list)], idx, <<deps[k]>>)
         IN  AddSysrootCrateEdges(deps, k + 1,
                 [tbl |-> tbl, list |-> SetBack(st.list, crate)])

\* crate_list.size() taken after the crate was appended.
CrateListSize_AfterAppend(list) == Len(list) + 1

\* crate_list.size(): the index the next crate of the list gets.
CrateListSize(list) == Len(list)

\* AddSysrootCrate when crate_index is taken before the crates it depends
\* on are added.
AddSysrootCrate_EarlyIndex(crate, current_sysroot, st) ==
    IF crate \in DOMAIN st.tbl THEN st
    ELSE LET has_deps == crate \in DOMAIN sysroot_deps_map
             deps == IF has_deps THEN sysroot_deps_map[crate] ELSE <<>>
             crate_index == CrateListSize(st.list)
             st1 == AddSysrootCrateDeps(deps, 1, current_sysroot, st)
             tbl == MapWith(st1.tbl, crate, crate_index)
             crate_path == <<rebased_out_dir, current_sysroot,
                             "/lib/rustlib/src/rust/library/", crate,
                             "/src/", "lib.rs">>
             sysroot_crate ==
                 AddConfigItem(
                     Crate(crate_path, <<>>, None, crate_index, <<crate>>,
                           <<crate>>, <<"2018">>),
                     <<"debug_assertions">>)
         IN  AddSysrootCrateEdges(deps, 1,
                 [tbl |-> tbl, list |-> Append(st1.list, sysroot_crate)])

\* AddSysrootCrate without the test of sysroot_crate_lookup at its entry.
AddSysrootCrate_NoMemo(crate, current_sysroot, st) ==
    LET has_deps == crate \in DOMAIN sysroot_deps_map
        deps == IF has_deps THEN sysroot_deps_map[crate] ELSE <<>>
        st1 == AddSysrootCrateDeps(deps, 1, current_sysroot, st)
        crate_index == CrateListSize(st1.list)
        tbl == MapWith(st1.tbl, crate, crate_index)
        crate_path == <<rebased_out_dir, current_sysroot,
                        "/lib/rustlib/src/rust/library/", crate,
                        "/src/", "lib.rs">>
        sysroot_crate ==
            AddConfigItem(
                Crate(crate_path, <<>>, None, crate_index, <<crate>>,
                      <<crate>>, <<"2018">>),
                <<"debug_assertions">>)
    IN  AddSysrootCrateEdges(deps, 1,
            [tbl |-> tbl, list |-> Append(st1.list, sysroot_crate)])

\* AddSysrootCrate(crate, current_sysroot, sysroot_crate_lookup, crate_list)
\* on st = [tbl |-> sysroot_crate_lookup, list |-> crate_list].
AddSysrootCrate(crate, current_sysroot, st) ==
    IF crate \in DOMAIN st.tbl THEN st
    ELSE LET has_deps == crate \in DOMAIN sysroot_deps_map
             deps == IF has_deps THEN sysroot_deps_map[crate] ELSE <<>>
             st1 == AddSysrootCrateDeps(deps, 1, current_sysroot, st)
             crate_index == CrateListSize(st1.list)
             tbl == MapWith(st1.tbl, crate, crate_index)
             crate_path == <<rebased_out_dir, current_sysroot,
                             "/lib/rustlib/src/rust/library/", crate,
                             "/src/", "lib.rs">>
             sysroot_crate ==
                 AddConfigItem(
                     Crate(crate_path, <<>>, None, crate_index, <<crate>>,
                           <<crate>>, <<"2018">>),
                     <<"debug_assertions">>)
         IN  AddSysrootCrateEdges(deps, 1,
                 [tbl |-> tbl, list |-> Append(st1.list, sysroot_crate)])

RECURSIVE AddSysrootLoop(_, _, _)
\* The loop of AddSysroot over sysroot_crates; st.sl is sysroot_lookup.
AddSysrootLoop(k, sysroot, st) ==
    IF k > Len(sysroot_crates) THEN st
    ELSE LET sl == MapWith(st.sl, sysroot, EmptyMap)
             r == AddSysrootCrate(sysroot_crates[k], sysroot,
                                  [tbl |-> sl[sysroot], list |-> st.list])
         IN  AddSysrootLoop(k + 1, sysroot,
                 [sl |-> [sl EXCEPT ![sysroot] = r.tbl], list |-> r.list])

\* AddSysroot(sysroot, sysroot_lookup, crate_list)
\* on st = [sl |-> sysroot_lookup, list |-> crate_list].
AddSysroot(sysroot, st) ==
    IF sysroot \in DOMAIN st.sl THEN st
    ELSE AddSysrootLoop(1, sysroot, st)

\* AddSysrootDependencyToCrate when every edge takes the index of std.
AddSysrootDependencyToCrate_StdIndex(crate, sysroot, crate_name) ==
    IF crate_name \in DOMAIN sysroot
       THEN AddDependency(crate, sysroot["std"], <<crate_name>>)
       ELSE crate

\* AddSysrootDependencyToCrate(crate, sysroot, crate_name)
AddSysrootDependencyToCrate(crate, sysroot, crate_name) ==
    IF crate_name \in DOMAIN sysroot
       THEN AddDependency(crate, sysroot[crate_name], <<crate_name>>)
       ELSE crate

----------------------------------------------------------------------------
\* The score lambda of PreferredTarget.
score(target) ==
    (IF all_targets[target].toolchain = default_toolchain THEN 2 ELSE 0)
    + (IF ~all_targets[target].testonly THEN 1 ELSE 0)

RECURSIVE MaxElementLoop_LastMax(_, _, _)
\* std::max_element with comp(lhs, rhs) = score(lhs) <= score(rhs): the
\* position of the last largest element.
MaxElementLoop_LastMax(targets, k, largest) ==
    IF k > Len(targets) THEN largest
    ELSE MaxElementLoop_LastMax(targets, k + 1,
             IF score(targets[largest]) <= score(targets[k]) THEN k
             ELSE largest)

RECURSIVE MaxElementLoop(_, _, _)
\* std::max_element with comp(lhs, rhs) = score(lhs) < score(rhs): the
\* position of the first largest element.
MaxElementLoop(targets, k, largest) ==
    IF k > Len(targets) THEN largest
    ELSE MaxElementLoop(targets, k + 1,
             IF score(targets[largest]) < score(targets[k]) THEN k
             ELSE largest)

\* PreferredTarget(default_toolchain, targets), targets not empty.
PreferredTarget(targets) == targets[MaxElementLoop(targets, 2, 1)]

----------------------------------------------------------------------------
\* Whitespace tokens, for base::TRIM_WHITESPACE.
IsSpace(tok) == tok \in {" ", "\t"}

RECURSIVE TrimWhitespace(_)
TrimWhitespace(str) ==
    IF str = <<>> THEN str
    ELSE IF IsSpace(Head(str)) THEN TrimWhitespace(Tail(str))
    ELSE IF IsSpace(str[Len(str)])
       THEN TrimWhitespace(SubSeq(str, 1, Len(str) - 1))
    ELSE str

RECURSIVE SplitStringLoop(_, _, _, _, _)
SplitStringLoop(input, sep, k, piece, parts) ==
    IF k > Len(input) THEN Append(parts, TrimWhitespace(piece))
    ELSE IF input[k] = sep
       THEN SplitStringLoop(input, sep, k + 1, <<>>,
                            Append(parts, TrimWhitespace(piece)))
    ELSE SplitStringLoop(input, sep, k + 1, Append(piece, input[k]), parts)

\* base::SplitString(input, sep, TRIM_WHITESPACE, SPLIT_WANT_ALL)
SplitString(input, sep) ==
    IF input = <<>> THEN <<>> ELSE SplitStringLoop(input, sep, 1, <<>>, <<>>)

RECURSIVE AddRustenvLoop(_, _, _)
\* The rustenv loop of AddCrate.
AddRustenvLoop(rustenv, k, crate) ==
    IF k > Len(rustenv) THEN crate
    ELSE LET parts == SplitString(rustenv[k], "=")
         IN  AddRustenvLoop(rustenv, k + 1,
                 IF Len(parts) >= 2 THEN AddRustenv(crate, parts[1], parts[2])
                 ELSE crate)

RECURSIVE AddConfigItems(_, _, _)
\* AddConfigItem for every element of cfgs, in order.
AddConfigItems(cfgs, k, crate) ==
    IF k > Len(cfgs) THEN crate
    ELSE AddConfigItems(cfgs, k + 1, AddConfigItem(crate, cfgs[k]))

RECURSIVE AddToolchainConfigs(_, _, _, _)
\* The loop of AddCrate over all_targets that adds the --cfg= values of the
\* targets in the main target's toolchain.
AddToolchainConfigs(targets, k, main_target, crate) ==
    IF k > Len(targets) THEN crate
    ELSE AddToolchainConfigs(targets, k + 1, main_target,
             IF all_targets[targets[k]].toolchain
                    /= all_targets[main_target].toolchain
                THEN crate
                ELSE AddConfigItems(
                         FindAllArgValuesAfterPrefix(
                             PrefixCfg, ExtractCompilerArgs(targets[k])),
                         1, crate))

RECURSIVE GatherCrateDeps_AllToolchains(_, _, _, _)
\* The gathering loop without the toolchain test.
GatherCrateDeps_AllToolchains(targets, k, main_target, crate_deps) ==
    IF k > Len(targets) THEN crate_deps
    ELSE GatherCrateDeps_AllToolchains(targets, k + 1, main_target,
             GetRustDeps(targets[k], crate_deps))

RECURSIVE GatherCrateDeps(_, _, _, _)
\* The loop of AddCrate over all_targets that gathers crate_deps from the
\* targets in the main target's toolchain.
GatherCrateDeps(targets, k, main_target, crate_deps) ==
    IF k > Len(targets) THEN crate_deps
    ELSE GatherCrateDeps(targets, k + 1, main_target,
             IF all_targets[targets[k]].toolchain
                    /= all_targets[main_target].toolchain
                THEN crate_deps
                ELSE GetRustDeps(targets[k], crate_deps))

RECURSIVE AddCrateDependencies(_, _, _, _, _)
\* The last loop of AddCrate: an edge to every dependency crate that has an
\* index (one without index is only printed).
AddCrateDependencies(crate_deps, k, crate_root, list, crate) ==
    IF k > Len(crate_deps) THEN crate
    ELSE AddCrateDependencies(crate_deps, k + 1, crate_root, list,
             IF crate_deps[k] = crate_root THEN crate
             ELSE LET info == lookup[crate_deps[k]]
                  IN  IF ~info.index.has THEN crate
                      ELSE AddDependency(crate, info.index.val,
                                         list[info.index.val + 1].name))

\* GetBuildDirForTargetAsOutputFile(main_target, BuildDirType::GEN)
GenDirOf(target) == <<"gen/">> \o all_targets[target].label

----------------------------------------------------------------------------
\* The build graphs the pass is run on.  A target is one of a few kinds:
\*   lib       rust_library of the default toolchain
\*   test      testonly Rust executable of the default toolchain
\*   macro     rust_proc_macro of the host toolchain
\*   host_test testonly Rust executable of the host toolchain
\*   group     a group
\*   action    an action whose sources are Rust files (not a binary)
\*   cc        a static_library without Rust sources
RustKinds == {"lib", "test", "macro", "host_test", "action"}

OutputTypeOf(kind) ==
    CASE kind = "lib" -> "rust_library"
      [] kind \in {"test", "host_test"} -> "executable"
      [] kind = "macro" -> "rust_proc_macro"
      [] kind = "group" -> "group"
      [] kind = "action" -> "action"
      [] kind = "cc" -> "static_library"

ToolNameOf(kind) ==
    CASE kind = "macro" -> kRsToolMacro
      [] kind \in {"test", "host_test"} -> kRsToolBin
      [] OTHER -> kRsToolRlib

\* The ConfigValues of a target of each kind: its own, then those of its
\* configs.
ConfigValuesOf(kind) ==
    CASE kind = "lib" ->
           << [rustflags |-> << <<"--edition", "=", "2021">>,
                                <<"--cfg", "=", "feature_a">> >>,
               rustenv |-> << <<"OUT_DIR", "=", "gen">> >>],
              [rustflags |-> << <<"--target">>, <<"arm-linux">> >>,
               rustenv |-> << <<"IGNORED", "=", "1">> >>] >>
      [] kind = "test" ->
           << [rustflags |-> << <<"--cfg", "=", "feature_b">> >>,
               rustenv |-> << <<"NOVALUE">> >>] >>
      [] kind = "macro" ->
           << [rustflags |-> << <<"--edition">>, <<"2018">> >>,
               rustenv |-> << <<"FLAGS", "=", "a", "=", "b">> >>],
              [rustflags |-> << <<"--target", "=", "host-linux">>,
                                <<"--cfg", "=", "feature_a">> >>,
               rustenv |-> <<>>] >>
      [] kind = "host_test" ->
           << [rustflags |-> << <<"--edition">> >>, rustenv |-> <<>>] >>
      [] OTHER -> << [rustflags |-> <<>>, rustenv |-> <<>>] >>

\* The sysroot the Rust tools of each toolchain name.
SysrootChoices ==
    { [tc \in Toolchains |-> IF tc = default_toolchain THEN c[1] ELSE c[2]] :
        c \in { <<"", "rust/sysroot_a">>,
                <<"rust/sysroot_a", "rust/sysroot_b">> } }

Target(id, kind, root, deps, sysroots) ==
    LET tc == IF kind \in {"macro", "host_test"} THEN other_toolchain
              ELSE default_toolchain
    IN  [output_type |-> OutputTypeOf(kind),
         rust |-> kind \in RustKinds,
         crate_root |-> RootPath(root),
         toolchain |-> tc,
         testonly |-> kind \in {"test", "host_test"},
         linked_deps |-> deps,
         config_values |-> ConfigValuesOf(kind),
         crate_name |-> CrateName(id),
         label |-> TargetLabel(id),
         tool |-> [name |-> ToolNameOf(kind), sysroot |-> sysroots[tc]],
         computed_outputs |-> IF kind = "macro" THEN <<OutputFileOf(id)>>
                              ELSE <<>>]

\* The link dependencies target id of n may declare: up to MaxDeps different
\* later targets, in any order (so the target graph is acyclic).
DepSeqs(id, n) ==
    UNION { {d \in [1..len -> (id + 1)..n] :
                \A a, b \in 1..len : a /= b => d[a] /= d[b]} :
            len \in 0..MaxDeps }

\* The number of crate roots the Rust targets of g name.
RootsUsed(g) ==
    Cardinality({g[k].crate_root : k \in {j \in 1..Len(g) : g[j].rust}})

\* The targets that may follow the targets g.  Crate roots are numbered in
\* the order of their first use, and a target without Rust sources has no
\* crate root of its own (it is given the first).
TargetsOf(id, n, kinds, nroots, sysroots, g) ==
    { Target(id, c[1], c[2], deps, sysroots) :
        c \in { c \in kinds \X (1..nroots) :
                  IF c[1] \in RustKinds
                     THEN c[2] <= RootsUsed(g) + 1
                     ELSE c[2] = 1 },
        deps \in DepSeqs(id, n) }

RECURSIVE GraphsUpTo(_, _, _, _, _)
\* The graphs of targets 1..k, as part of a graph of n targets.
GraphsUpTo(k, n, kinds, nroots, sysroots) ==
    IF k = 0 THEN { <<>> }
    ELSE UNION { { Append(g, t) :
                     t \in TargetsOf(k, n, kinds, nroots, sysroots, g) } :
                 g \in GraphsUpTo(k - 1, n, kinds, nroots, sysroots) }

\* The graphs of n targets of the given kinds that name up to nroots crate
\* roots.
Graphs(n, kinds, nroots, choices) ==
    UNION { GraphsUpTo(n, n, kinds, nroots, sysroots) : sysroots \in choices }

----------------------------------------------------------------------------
NoProbe == [fn |-> "none"]

\* CrateInfo when its seen flag starts out set.
CrateInfo_SeenSet == [targets |-> <<>>, seen |-> TRUE, index |-> None]

\* CrateInfo as RenderJSON's lookup[crate_root] creates it.
CrateInfo == [targets |-> <<>>, seen |-> FALSE, index |-> None]

\* An AddCrate call that has not started.
Call(crate_root) ==
    [crate_root |-> crate_root, at |-> "entry", main_target |-> 0,
     compiler_args |-> <<>>, compiler_target |-> None,
     current_sysroot |-> "", crate_deps |-> <<>>, i |-> 0]

MainKinds == {"lib", "test", "macro", "group", "action"}

Init ==
    /\ all_targets \in Graphs(NumTargets, MainKinds, NumRoots, SysrootChoices)
    /\ pc = "start"
    /\ scan_i = 1
    /\ pending = {}
    /\ lookup = EmptyMap
    /\ sysroot_lookup = EmptyMap
    /\ crate_list = <<>>
    /\ stack = <<>>
    /\ out = <<>>
    /\ probe = NoProbe

\* RunAndWriteFiles when the null test of output_file comes after the
\* discovery loop has gone over the targets.
RunAndWriteFiles_Start_TestAfterScan ==
    /\ pc = "start"
    /\ \E resolved \in BOOLEAN :
          /\ pc' = IF resolved THEN "scan" ELSE "failed"
          /\ scan_i' = IF resolved THEN scan_i ELSE Len(all_targets) + 1
    /\ UNCHANGED <<all_targets, pending, lookup, sysroot_lookup,
                   crate_list, stack, out, probe>>

\* RunAndWriteFiles up to the call of RenderJSON: file_name is resolved
\* against the build directory, and a null result ends the run.
RunAndWriteFiles_Start ==
    /\ pc = "start"
    /\ \E resolved \in BOOLEAN :
          pc' = IF resolved THEN "scan" ELSE "failed"
    /\ UNCHANGED <<all_targets, scan_i, pending, lookup, sysroot_lookup,
                   crate_list, stack, out, probe>>

\* The test of the discovery loop, with test-only targets left out as well.
IsRustBinary_NoTestonly(target) ==
    IsBinary(target) /\ RustSourceUsed(target) /\ ~target.testonly

\* The test of the discovery loop without the IsBinary test.
IsRustBinary_AnyRust(target) == RustSourceUsed(target)

\* The test of the discovery loop: the targets that are not skipped.
IsRustBinary(target) == IsBinary(target) /\ RustSourceUsed(target)

\* One iteration of RenderJSON's loop over all_targets; after the last one
\* the generation loop starts over the keys of lookup.
RenderJSON_Scan ==
    /\ pc = "scan"
    /\ scan_i <= Len(all_targets)
    /\ LET target == all_targets[scan_i]
           crate_root == target.crate_root
           with == MapWith(lookup, crate_root, CrateInfo)
       IN  /\ lookup' =
                 IF ~IsRustBinary(target) THEN lookup
                 ELSE [with EXCEPT ![crate_root].targets = Append(@, scan_i)]
           /\ scan_i' = scan_i + 1
           /\ IF scan_i = Len(all_targets)
                 THEN pc' = "resolve" /\ pending' = DOMAIN lookup'
                 ELSE UNCHANGED <<pc, pending>>
    /\ UNCHANGED <<all_targets, sysroot_lookup, crate_list, stack, out, probe>>

\* One iteration of RenderJSON's loop over lookup: the call of AddCrate.  The
\* map is unordered, so any key not yet reached may come next.
RenderJSON_Visit ==
    /\ pc = "resolve"
    /\ stack = <<>>
    /\ \E crate_root \in pending :
          /\ pending' = pending \ {crate_root}
          /\ stack' = <<Call(crate_root)>>
    /\ UNCHANGED <<all_targets, pc, scan_i, lookup, sysroot_lookup,
                   crate_list, out, probe>>

\* The test at the entry of AddCrate when it asks for the index instead of
\* the seen flag.
Seen_WhenIndexed(crate_info) == crate_info.index.has

\* The seen test at the entry of AddCrate.
Seen(crate_info) == crate_info.seen

Top == stack[Len(stack)]
Pop == SubSeq(stack, 1, Len(stack) - 1)

\* AddCrate from its entry to the loop over crate_deps: the seen test, the
\* main target, its arguments and sysroot, and the gathering of crate_deps.
AddCrate_Entry ==
    /\ pc = "resolve"
    /\ stack /= <<>>
    /\ Top.at = "entry"
    /\ LET crate_root == Top.crate_root
           crate_info == lookup[crate_root]
       IN  IF Seen(crate_info)
           THEN /\ stack' = Pop
                /\ UNCHANGED <<lookup, sysroot_lookup, crate_list>>
           ELSE LET all == crate_info.targets
                    main_target == PreferredTarget(all)
                    compiler_args == ExtractCompilerArgs(main_target)
                    compiler_target == CompilerTargetOf(compiler_args)
                    rust_tool == all_targets[main_target].tool
                    current_sysroot == rust_tool.sysroot
                    st == [sl |-> sysroot_lookup, list |-> crate_list]
                    st1 == IF current_sysroot /= ""
                              /\ current_sysroot \notin DOMAIN sysroot_lookup
                           THEN AddSysroot(current_sysroot, st)
                           ELSE st
                    crate_deps == GatherCrateDeps(all, 1, main_target, <<>>)
                IN  /\ lookup' = [lookup EXCEPT ![crate_root].seen = TRUE]
                    /\ sysroot_lookup' = st1.sl
                    /\ crate_list' = st1.list
                    /\ stack' = Append(Pop,
                          [crate_root |-> crate_root, at |-> "deps",
                           main_target |-> main_target,
                           compiler_args |-> compiler_args,
                           compiler_target |-> compiler_target,
                           current_sysroot |-> current_sysroot,
                           crate_deps |-> crate_deps, i |-> 1])
    /\ UNCHANGED <<all_targets, pc, scan_i, pending, out, probe>>

\* AddCrate_Dep without the recursive call: a dependency crate gets its index
\* only when the generation loop reaches it.
AddCrate_Dep_NoRecursion ==
    /\ pc = "resolve"
    /\ stack /= <<>>
    /\ Top.at = "deps"
    /\ Top.i <= Len(Top.crate_deps)
    /\ stack' = Append(Pop, [Top EXCEPT !.i = @ + 1])
    /\ UNCHANGED <<all_targets, pc, scan_i, pending, lookup, sysroot_lookup,
                   crate_list, out, probe>>

\* One iteration of AddCrate's loop that adds the dependency crates first:
\* the crate itself is skipped, lookup.at(dep) throws std::out_of_range for
\* a root that is no key (nothing catches it), and otherwise AddCrate is
\* called for dep.
AddCrate_Dep ==
    /\ pc = "resolve"
    /\ stack /= <<>>
    /\ Top.at = "deps"
    /\ Top.i <= Len(Top.crate_deps)
    /\ LET dep == Top.crate_deps[Top.i]
           next == [Top EXCEPT !.i = @ + 1]
       IN  IF dep = Top.crate_root
           THEN stack' = Append(Pop, next) /\ pc' = pc
           ELSE IF dep \notin DOMAIN lookup
           THEN stack' = stack /\ pc' = "terminated"
           ELSE stack' = Append(Append(Pop, next), Call(dep)) /\ pc' = pc
    /\ UNCHANGED <<all_targets, scan_i, pending, lookup, sysroot_lookup,
                   crate_list, out, probe>>

\* AddCrate after the loop over crate_deps: the crate is appended to
\* crate_list with its index, arguments, configs, sysroot edges, proc-macro
\* output, environment and dependency edges, and the call returns.
AddCrate_Append ==
    /\ pc = "resolve"
    /\ stack /= <<>>
    /\ Top.at = "deps"
    /\ Top.i > Len(Top.crate_deps)
    /\ LET crate_root == Top.crate_root
           main_target == Top.main_target
           main == all_targets[main_target]
           compiler_args == Top.compiler_args
           current_sysroot == Top.current_sysroot
           edition == EditionOf(compiler_args)
           gen_dir == Some(GenDirOf(main_target))
           crate_index == CrateListSize(crate_list)
           lookup1 == [lookup EXCEPT ![crate_root].index = Some(crate_index),
                                     ![crate_root].targets = MovedFrom(@)]
           all == lookup1[crate_root].targets
           c0 == Crate(crate_root, lookup[crate_root].targets, gen_dir,
                       crate_index, main.crate_name, main.label, edition)
           c1 == [c0 EXCEPT !.compiler_args = compiler_args]
           c2 == IF Top.compiler_target.has
                    THEN [c1 EXCEPT !.compiler_target = Top.compiler_target]
                    ELSE c1
           c3 == AddConfigItem(AddConfigItem(c2, <<"test">>),
                               <<"debug_assertions">>)
           c4 == AddConfigItems(
                     FindAllArgValuesAfterPrefix(PrefixCfg, compiler_args),
                     1, c3)
           c5 == AddToolchainConfigs(all, 1, main_target, c4)
           sl == IF current_sysroot /= ""
                    THEN MapWith(sysroot_lookup, current_sysroot, EmptyMap)
                    ELSE sysroot_lookup
           is_macro == main.tool.name = kRsToolMacro
           c6 == IF current_sysroot = "" THEN c5
                 ELSE LET sysroot == sl[current_sysroot]
                          s1 == AddSysrootDependencyToCrate(c5, sysroot, "core")
                          s2 == AddSysrootDependencyToCrate(s1, sysroot, "alloc")
                          s3 == AddSysrootDependencyToCrate(s2, sysroot, "std")
                      IN  IF is_macro
                          THEN AddSysrootDependencyToCrate(s3, sysroot,
                                                           "proc_macro")
                          ELSE s3
           c7 == IF is_macro /\ Len(main.computed_outputs) > 0
                    THEN [c6 EXCEPT !.proc_macro_path =
                                        Some(main.computed_outputs[1])]
                    ELSE c6
           c8 == AddRustenvLoop(main.config_values[1].rustenv, 1, c7)
           list1 == Append(crate_list, c8)
           c9 == AddCrateDependencies(Top.crate_deps, 1, crate_root, list1, c8)
       IN  /\ lookup' = lookup1
           /\ sysroot_lookup' = sl
           /\ crate_list' = SetBack(list1, c9)
           /\ stack' = Pop
    /\ UNCHANGED <<all_targets, pc, scan_i, pending, out, probe>>

----------------------------------------------------------------------------
\* What WriteCrates writes, as a sequence of JSON tokens [k, s]: k is the
\* kind of token and s its text (a sequence of string tokens).
Punct(c) == [k |-> "punct", s |-> <<c>>]
Key(name) == [k |-> "key", s |-> <<name>>]
Str(text) == [k |-> "string", s |-> text]
Num(n) == [k |-> "number", s |-> <<ToString(n)>>]
Lit(word) == [k |-> "literal", s |-> <<word>>]

RECURSIVE EscapeJSONString(_)
\* base::EscapeJSONString(str, false, &dest): quotes and backslashes get a
\* backslash.
EscapeJSONString(str) ==
    IF str = <<>> THEN <<>>
    ELSE (IF Head(str) \in {"\"", "\\"} THEN <<"\\", Head(str)>>
          ELSE <<Head(str)>>) \o EscapeJSONString(Tail(str))

\* FilePathToUTF8(build_settings->GetFullPath(file))
GetFullPath(file) == <<"/abs/src/">> \o file

\* SourceFile::GetDir
GetDir(file) == SubSeq(file, 1, Len(file) - 1)

RECURSIVE WriteCompilerArgs(_, _)
WriteCompilerArgs(args, k) ==
    IF k > Len(args) THEN <<>>
    ELSE (IF k > 1 THEN <<Punct(",")>> ELSE <<>>)
         \o <<Str(EscapeJSONString(args[k]))>>
         \o WriteCompilerArgs(args, k + 1)

RECURSIVE WriteDeps(_, _)
WriteDeps(deps, k) ==
    IF k > Len(deps) THEN <<>>
    ELSE (IF k > 1 THEN <<Punct(",")>> ELSE <<>>)
         \o <<Punct("{"), Key("crate"), Num(deps[k].crate), Punct(","),
              Key("name"), Str(deps[k].name), Punct("}")>>
         \o WriteDeps(deps, k + 1)

RECURSIVE WriteConfigs(_, _)
WriteConfigs(configs, k) ==
    IF k > Len(configs) THEN <<>>
    ELSE (IF k > 1 THEN <<Punct(",")>> ELSE <<>>)
         \o <<Str(EscapeJSONString(configs[k]))>>
         \o WriteConfigs(configs, k + 1)

RECURSIVE WriteRustenv(_, _)
WriteRustenv(rustenv, k) ==
    IF k > Len(rustenv) THEN <<>>
    ELSE (IF k > 1 THEN <<Punct(",")>> ELSE <<>>)
         \o <<[k |-> "key", s |-> EscapeJSONString(rustenv[k][1])],
              Str(EscapeJSONString(rustenv[k][2]))>>
         \o WriteRustenv(rustenv, k + 1)

\* WriteCrates, one crate: crate_id, root_module, label and source.
WriteHead(crate) ==
    <<Key("crate_id"), Num(crate.index), Punct(","),
      Key("root_module"), Str(GetFullPath(crate.root)), Punct(","),
      Key("label"), Str(crate.label), Punct(","),
      Key("source"), Punct("{"),
      Key("include_dirs"), Punct("["),
      Str(GetFullPath(GetDir(crate.root)))>>
    \o (IF crate.gen_dir.has
           THEN <<Punct(","), Str(GetFullPath(crate.gen_dir.val))>>
           ELSE <<>>)
    \o <<Punct("]"), Punct(","),
         Key("exclude_dirs"), Punct("["), Punct("]"),
         Punct("}"), Punct(",")>>

\* WriteCrates, one crate: target.
WriteTarget(crate) ==
    IF crate.compiler_target.has
       THEN <<Key("target"), Str(crate.compiler_target.val), Punct(",")>>
       ELSE <<>>

\* WriteCrates, one crate: compiler_args.
WriteArgs(crate) ==
    IF crate.compiler_args /= <<>>
       THEN <<Key("compiler_args"), Punct("[")>>
            \o WriteCompilerArgs(crate.compiler_args, 1)
            \o <<Punct("]"), Punct(",")>>
       ELSE <<>>

\* WriteCrates, one crate: deps.
WriteDepList(crate) ==
    <<Key("deps"), Punct("[")>> \o WriteDeps(crate.deps, 1)
    \o <<Punct("]"), Punct(",")>>

\* WriteCrates, one crate: edition.
WriteEdition(crate) == <<Key("edition"), Str(crate.edition), Punct(",")>>

\* WriteCrates, one crate: is_proc_macro and proc_macro_dylib_path.
WriteProcMacro(crate) ==
    IF crate.proc_macro_path.has
       THEN <<Key("is_proc_macro"), Lit("true"), Punct(","),
              Key("proc_macro_dylib_path"),
              Str(GetFullPath(crate.proc_macro_path.val)), Punct(",")>>
       ELSE <<>>

\* WriteCrates, one crate: cfg.
WriteCfg(crate) ==
    <<Key("cfg"), Punct("[")>> \o WriteConfigs(crate.configs, 1)
    \o <<Punct("]")>>

\* WriteCrates, one crate: env.
WriteEnv(crate) ==
    IF crate.rustenv /= <<>>
       THEN <<Punct(","), Key("env"), Punct("{")>>
            \o WriteRustenv(crate.rustenv, 1)
            \o <<Punct("}")>>
       ELSE <<>>

\* The body of the loop with the edition written after cfg and env.
WriteCrate_EditionLast(crate, first_crate) ==
    (IF ~first_crate THEN <<Punct(",")>> ELSE <<>>)
    \o <<Punct("{")>>
    \o WriteHead(crate) \o WriteTarget(crate) \o WriteArgs(crate)
    \o WriteDepList(crate) \o WriteProcMacro(crate)
    \o WriteCfg(crate) \o WriteEnv(crate)
    \o <<Punct(",")>> \o WriteEdition(crate)
    \o <<Punct("}")>>

\* The body of WriteCrates' loop for one crate.
WriteCrate(crate, first_crate) ==
    (IF ~first_crate THEN <<Punct(",")>> ELSE <<>>)
    \o <<Punct("{")>>
    \o WriteHead(crate) \o WriteTarget(crate) \o WriteArgs(crate)
    \o WriteDepList(crate) \o WriteEdition(crate) \o WriteProcMacro(crate)
    \o WriteCfg(crate) \o WriteEnv(crate)
    \o <<Punct("}")>>

\* WriteCrates' loop when it stops after the first crate.
WriteCratesLoop_FirstOnly(list, k) ==
    IF k > Len(list) \/ k > 1 THEN <<>>
    ELSE WriteCrate(list[k], k = 1)

RECURSIVE WriteCratesLoop(_, _)
WriteCratesLoop(list, k) ==
    IF k > Len(list) THEN <<>>
    ELSE WriteCrate(list[k], k = 1) \o WriteCratesLoop(list, k + 1)

\* WriteCrates(build_settings, crate_list, rust_project)
WriteCrates(list) ==
    <<Punct("{"), Key("crates"), Punct("[")>>
    \o WriteCratesLoop(list, 1)
    \o <<Punct("]"), Punct("}")>>

\* The end of RenderJSON: every key of lookup was reached, and the crate
\* list is written.
RenderJSON_Write ==
    /\ pc = "resolve"
    /\ stack = <<>>
    /\ pending = {}
    /\ out' = WriteCrates(crate_list)
    /\ pc' = "done"
    /\ UNCHANGED <<all_targets, scan_i, pending, lookup, sysroot_lookup,
                   crate_list, stack, probe>>

Next ==
    \/ RunAndWriteFiles_Start
    \/ RenderJSON_Scan
    \/ RenderJSON_Visit
    \/ AddCrate_Entry
    \/ AddCrate_Dep
    \/ AddCrate_Append
    \/ RenderJSON_Write

Spec == Init /\ [][Next]_vars

\* GetRustDeps on its own, for any target of any graph of Rust libraries,
\* groups and static libraries without Rust sources.
DepKinds == {"lib", "group", "cc"}

InitDeps ==
    /\ all_targets \in Graphs(NumDepTargets, DepKinds, NumRoots,
                              {CHOOSE c \in SysrootChoices : TRUE})
    /\ pc = "call"
    /\ scan_i = 1
    /\ pending = {}
    /\ lookup = EmptyMap
    /\ sysroot_lookup = EmptyMap
    /\ crate_list = <<>>
    /\ stack = <<>>
    /\ out = <<>>
    /\ probe = NoProbe

\* DependencySet rust_deps; GetRustDeps(target, &rust_deps);
GetRustDeps_Call ==
    /\ pc = "call"
    /\ probe = NoProbe
    /\ \E target \in 1..Len(all_targets) :
          probe' = [fn |-> "GetRustDeps", target |-> target,
                    result |-> GetRustDeps(target, <<>>)]
    /\ pc' = "returned"
    /\ UNCHANGED <<all_targets, scan_i, pending, lookup, sysroot_lookup,
                   crate_list, stack, out>>

NextDeps == GetRustDeps_Call

SpecDeps == InitDeps /\ [][NextDeps]_vars

\* The arguments a rustflags list is drawn from: the flags AddCrate looks
\* for, alone, with a value attached and with an empty value, their values
\* as arguments of their own, and a flag it does not look for here.
ArgAlphabet ==
    { <<"--edition">>, <<"--edition", "=", "2021">>, <<"--edition", "=">>,
      <<"2018">>, <<"--target">>, <<"--target", "=", "x86_64">>,
      <<"arm-linux">>, <<"--cfg", "=", "feature_a">> }

ArgLists == UNION { [1..n -> ArgAlphabet] : n \in 0..MaxArgs }

\* The compiler arguments of a main target, as ExtractCompilerArgs returns
\* them, before AddCrate reads the triple or the edition out of them.
InitArgs ==
    /\ all_targets = <<>>
    /\ pc = "call"
    /\ scan_i = 1
    /\ pending = {}
    /\ lookup = EmptyMap
    /\ sysroot_lookup = EmptyMap
    /\ crate_list = <<>>
    /\ stack = <<>>
    /\ out = <<>>
    /\ probe \in {[fn |-> "ExtractCompilerArgs", compiler_args |-> a,
                   result |-> None] : a \in ArgLists}

\* auto compiler_target = FindArgValue("--target", compiler_args);
AddCrate_CompilerTarget ==
    /\ pc = "call"
    /\ probe' = [fn |-> "compiler_target",
                 compiler_args |-> probe.compiler_args,
                 result |-> CompilerTargetOf(probe.compiler_args)]
    /\ pc' = "returned"
    /\ UNCHANGED <<all_targets, scan_i, pending, lookup, sysroot_lookup,
                   crate_list, stack, out>>

\* auto edition = FindArgValueAfterPrefix("--edition=", compiler_args); ...
\* edition.value_or("2015")
AddCrate_Edition ==
    /\ pc = "call"
    /\ probe' = [fn |-> "edition",
                 compiler_args |-> probe.compiler_args,
                 result |-> Some(EditionOf(probe.compiler_args))]
    /\ pc' = "returned"
    /\ UNCHANGED <<all_targets, scan_i, pending, lookup, sysroot_lookup,
                   crate_list, stack, out>>

NextArgs == AddCrate_CompilerTarget \/ AddCrate_Edition

SpecArgs == InitArgs /\ [][NextArgs]_vars

\* The crates a crate list is drawn from, as AddCrate and AddSysrootCrate can
\* leave them: with and without a gen dir, a triple, compiler arguments,
\* dependencies, a proc-macro path, configuration flags and environment.
CrateRecords(index) ==
    { [Crate(RootPath(index + 1), <<>>, gen_dir, index,
             <<"crate", ToString(index)>>,
             <<"//crate", ToString(index), ":lib">>, <<"2021">>)
         EXCEPT !.compiler_target = compiler_target,
                !.compiler_args = compiler_args,
                !.deps = deps,
                !.proc_macro_path = proc_macro_path,
                !.configs = configs,
                !.rustenv = rustenv] :
        gen_dir \in {None, Some(<<"out/gen/">>)},
        compiler_target \in {None, Some(<<"arm-linux">>)},
        compiler_args \in {<<>>, << <<"--cfg", "=", "feature_a">> >>},
        deps \in {<<>>, <<[crate |-> 1, name |-> <<"crate1">>],
                          [crate |-> 0, name |-> <<"core">>]>>},
        proc_macro_path \in {None, Some(<<"out/", "libmacro.so">>)},
        configs \in {<<>>, << <<"feature_a">> >>},
        rustenv \in {<<>>, << << <<"OUT_DIR">>, <<"gen">> >> >>} }

RECURSIVE CrateLists(_)
\* The crate lists of n crates, each with its position as index.
CrateLists(n) ==
    IF n = 0 THEN {<<>>}
    ELSE {Append(l, c) : l \in CrateLists(n - 1), c \in CrateRecords(n - 1)}

\* RenderJSON after its generation loop, with any crate list, before
\* WriteCrates.
InitWrite ==
    /\ all_targets = <<>>
    /\ pc = "resolve"
    /\ scan_i = 1
    /\ pending = {}
    /\ lookup = EmptyMap
    /\ sysroot_lookup = EmptyMap
    /\ crate_list \in UNION {CrateLists(n) : n \in 0..MaxCrates}
    /\ stack = <<>>
    /\ out = <<>>
    /\ probe = NoProbe

NextWrite == RenderJSON_Write

SpecWrite == InitWrite /\ [][NextWrite]_vars

\* The pass over the graphs in which every target builds the same crate, in
\* either toolchain, test-only or not: the candidate sequences of one crate.
\* The run as one synchronous call, in which a step that can be taken is
\* taken, over the graphs of libraries, tests, groups and actions whose
\* tools name no sysroot.
LiveKinds == {"lib", "test", "group", "action"}

InitLive ==
    /\ all_targets \in Graphs(NumTargets, LiveKinds, NumRoots,
                              {[tc \in Toolchains |-> ""]})
    /\ pc = "start"
    /\ scan_i = 1
    /\ pending = {}
    /\ lookup = EmptyMap
    /\ sysroot_lookup = EmptyMap
    /\ crate_list = <<>>
    /\ stack = <<>>
    /\ out = <<>>
    /\ probe = NoProbe

SpecLive == InitLive /\ [][Next]_vars /\ WF_vars(Next)

\* Two runs of the writer over one graph of libraries, tests and proc
\* macros whose toolchains name a sysroot each: after the first run its
\* crate list is kept aside, and RenderJSON starts again with a new lookup,
\* sysroot_lookup and crate_list.
TwoRunKinds == {"lib", "test", "macro"}

InitTwoRuns ==
    /\ all_targets \in Graphs(NumTargets, TwoRunKinds, NumRoots,
                              {c \in SysrootChoices : c[default_toolchain] /= ""})
    /\ pc = "start"
    /\ scan_i = 1
    /\ pending = {}
    /\ lookup = EmptyMap
    /\ sysroot_lookup = EmptyMap
    /\ crate_list = <<>>
    /\ stack = <<>>
    /\ out = <<>>
    /\ probe = NoProbe

RunAndWriteFiles_Again ==
    /\ pc = "done"
    /\ probe = NoProbe
    /\ probe' = [fn |-> "RenderJSON", crate_list |-> crate_list]
    /\ pc' = "scan"
    /\ scan_i' = 1
    /\ pending' = {}
    /\ lookup' = EmptyMap
    /\ sysroot_lookup' = EmptyMap
    /\ crate_list' = <<>>
    /\ out' = <<>>
    /\ UNCHANGED <<all_targets, stack>>

NextTwoRuns == Next \/ RunAndWriteFiles_Again

SpecTwoRuns == InitTwoRuns /\ [][NextTwoRuns]_vars

CandidateKinds == {"lib", "test", "macro", "host_test"}

InitPreferred ==
    /\ all_targets \in Graphs(NumTargets, CandidateKinds, 1, SysrootChoices)
    /\ pc = "start"
    /\ scan_i = 1
    /\ pending = {}
    /\ lookup = EmptyMap
    /\ sysroot_lookup = EmptyMap
    /\ crate_list = <<>>
    /\ stack = <<>>
    /\ out = <<>>
    /\ probe = NoProbe

SpecPreferred == InitPreferred /\ [][Next]_vars

----------------------------------------------------------------------------
\* What the claims speak of, stated on the build graph and the crate list.

TargetIds == 1..Len(all_targets)

\* The targets the discovery scan takes for crate root r.
CandidatesOf(r) ==
    {t \in TargetIds : /\ IsBinary(all_targets[t])
                       /\ all_targets[t].rust
                       /\ all_targets[t].crate_root = r}

DiscoveredRoots == {r \in Roots : CandidatesOf(r) /= {}}

\* +2 for the default toolchain, +1 for a target that is not test-only.
ScoreOf(t) ==
    (IF all_targets[t].toolchain = default_toolchain THEN 2 ELSE 0)
    + (IF all_targets[t].testonly THEN 0 ELSE 1)

BestOf(r) ==
    {t \in CandidatesOf(r) : \A u \in CandidatesOf(r) : ScoreOf(u) <= ScoreOf(t)}

\* The toolchain of the best candidates (equal scores mean equal toolchains).
MainToolchainOf(r) == all_targets[CHOOSE t \in BestOf(r) : TRUE].toolchain

DepSetOf(t) == {all_targets[t].linked_deps[k] :
                   k \in 1..Len(all_targets[t].linked_deps)}

IsPlainGroup(t) ==
    all_targets[t].output_type = "group" /\ ~all_targets[t].rust

RECURSIVE ThroughGroups(_, _)
\* The targets reached from the set S over link dependencies of groups, in
\* at most n further hops.
ThroughGroups(S, n) ==
    IF n = 0 THEN S
    ELSE ThroughGroups(
             S \cup UNION {DepSetOf(g) : g \in {x \in S : IsPlainGroup(x)}},
             n - 1)

\* The Rust targets a target depends on directly or through groups only.
RustNeighboursOf(t) ==
    {u \in ThroughGroups(DepSetOf(t), Len(all_targets)) : all_targets[u].rust}

\* The crate-level neighbours of crate r, r itself left out.
NeighbourRoots(r) ==
    {all_targets[u].crate_root :
        u \in UNION {RustNeighboursOf(t) :
                       t \in {c \in CandidatesOf(r) :
                                all_targets[c].toolchain = MainToolchainOf(r)}}}
    \ {r}

RECURSIVE ReachableRoots(_, _)
ReachableRoots(S, n) ==
    IF n = 0 THEN S
    ELSE ReachableRoots(
             S \cup UNION {NeighbourRoots(r) : r \in S \cap DiscoveredRoots},
             n - 1)

\* No crate reaches itself over the crate-level neighbour relation.
NeighbourAcyclic ==
    \A r \in DiscoveredRoots :
        r \notin ReachableRoots(NeighbourRoots(r), NumRoots)

\* The records of crate_list for crate root r, and the handle of r.
RecordsOf(r) == {k \in 1..Len(crate_list) : crate_list[k].root = r}
HasRecord(r) == RecordsOf(r) /= {}
HandleOf(r) == crate_list[CHOOSE k \in RecordsOf(r) : TRUE].index

HandlesOrdered(A) ==
    \A B \in NeighbourRoots(A) :
        HasRecord(B) /\ HandleOf(B) < HandleOf(A)

SysrootRecords ==
    {k \in 1..Len(crate_list) :
        \E sr \in DOMAIN sysroot_lookup :
            \E n \in DOMAIN sysroot_lookup[sr] :
                sysroot_lookup[sr][n] = crate_list[k].index}

\* C2: the crate list never holds two records for one crate root, every
\* record outside the sysroot sets is the record of a discovered crate root,
\* and after the pass every discovered crate root has exactly one record.
C2_Deduplication ==
    /\ \A r \in Roots : Cardinality(RecordsOf(r)) <= 1
    /\ \A k \in (1..Len(crate_list)) \ SysrootRecords :
          crate_list[k].root \in DiscoveredRoots
    /\ pc = "done" =>
          /\ \A r \in DiscoveredRoots : Cardinality(RecordsOf(r)) = 1
          /\ Cardinality((1..Len(crate_list)) \ SysrootRecords)
                = Cardinality(DiscoveredRoots)

\* A finished pass in which one crate root is built by two targets that
\* differ in toolchain or in testonly and two other crates depend on it.
C2_Witness ==
    /\ pc = "done"
    /\ \E r \in DiscoveredRoots :
          /\ \E t, u \in CandidatesOf(r) :
                \/ all_targets[t].toolchain /= all_targets[u].toolchain
                \/ all_targets[t].testonly /= all_targets[u].testonly
          /\ \E A \in DiscoveredRoots : r \in NeighbourRoots(A)
          /\ Cardinality(RecordsOf(r)) = 1

\* The edition the claims give for an argument list: the rest of the first
\* argument that starts with `--edition=`, else the argument after the first
\* `--edition` that has one, else "2015".
EditionArgs(args) ==
    {k \in 1..Len(args) : /\ Len(args[k]) >= 2
                          /\ args[k][1] = "--edition"
                          /\ args[k][2] = "="}
EditionFlags(args) ==
    {k \in 1..(Len(args) - 1) : args[k] = <<"--edition">>}
FirstOf(S) == CHOOSE k \in S : \A j \in S : k <= j
ExpectedEdition(args) ==
    IF EditionArgs(args) /= {}
       THEN Tail(Tail(args[FirstOf(EditionArgs(args))]))
    ELSE IF EditionFlags(args) /= {}
       THEN args[FirstOf(EditionFlags(args)) + 1]
    ELSE <<"2015">>

\* Candidate k of record c is the one the claim names: maximal score, and
\* earlier than every other candidate of that score.
IsPreferred(c, k) ==
    /\ \A j \in 1..Len(c.targets) :
          ScoreOf(c.targets[j]) <= ScoreOf(c.targets[k])
    /\ \A j \in 1..(k - 1) :
          ScoreOf(c.targets[j]) < ScoreOf(c.targets[k])

\* C3: every record of a discovered crate carries the name, label, compiler
\* arguments and edition of the candidate with the maximal score (2 for the
\* default toolchain plus 1 for not test-only) that comes first among the
\* crate's candidates.
C3_PreferredTarget ==
    \A i \in (1..Len(crate_list)) \ SysrootRecords :
        LET c == crate_list[i]
        IN  /\ Len(c.targets) > 0
            /\ {c.targets[j] : j \in 1..Len(c.targets)} = CandidatesOf(c.root)
            /\ \A j \in 1..(Len(c.targets) - 1) : c.targets[j] < c.targets[j + 1]
            /\ \E k \in 1..Len(c.targets) :
                  LET m == all_targets[c.targets[k]]
                  IN  /\ IsPreferred(c, k)
                      /\ c.label = m.label
                      /\ c.name = m.crate_name
                      /\ c.compiler_args = ExtractCompilerArgs(c.targets[k])
                      /\ c.edition = ExpectedEdition(c.compiler_args)

\* A record made from three candidates of which the first has a lower score
\* than the other two, which tie.
C3_Witness ==
    \E i \in (1..Len(crate_list)) \ SysrootRecords :
        LET c == crate_list[i]
        IN  /\ Len(c.targets) = 3
            /\ ScoreOf(c.targets[1]) < ScoreOf(c.targets[2])
            /\ ScoreOf(c.targets[2]) = ScoreOf(c.targets[3])
            /\ c.label = all_targets[c.targets[2]].label

\* The names of the built-in crates of a sysroot.
SysrootNames ==
    {"std", "core", "alloc", "panic_unwind",
     "proc_macro", "test", "panic_abort", "unwind"}

\* The records of crate_list whose root lies in sysroot sr.
SysrootRecordsOf(sr) ==
    {k \in 1..Len(crate_list) :
        crate_list[k].root[1] = rebased_out_dir /\ crate_list[k].root[2] = sr}

\* The sysroot of crate r: the one the tool of its best candidates names.
SysrootOfCrate(r) == all_targets[CHOOSE t \in BestOf(r) : TRUE].tool.sysroot

\* The table of sysroot sr names the 8 built-in crates, each entry is the
\* handle of the record of that name in sr, and sr has no other record.
OneSysrootSet(sr) ==
    LET tbl == sysroot_lookup[sr]
    IN  /\ sr /= ""
        /\ DOMAIN tbl = SysrootNames
        /\ \A n \in SysrootNames :
              /\ tbl[n] + 1 \in SysrootRecordsOf(sr)
              /\ crate_list[tbl[n] + 1].name = <<n>>
              /\ crate_list[tbl[n] + 1].index = tbl[n]
        /\ Cardinality(SysrootRecordsOf(sr)) = 8

\* A table, once made, keeps every entry.
TablesKept ==
    \A sr \in DOMAIN sysroot_lookup :
        sr \in DOMAIN sysroot_lookup' /\ sysroot_lookup'[sr] = sysroot_lookup[sr]

\* The step in which a crate not yet seen refers to its sysroot: the first
\* reference to a path appends 8 records and makes its table, any other
\* appends nothing and changes no table.
SysrootReference ==
    (pc = "resolve" /\ stack /= <<>> /\ Top.at = "entry"
        /\ ~lookup[Top.crate_root].seen)
    => LET sr == SysrootOfCrate(Top.crate_root)
       IN  IF sr = "" \/ sr \in DOMAIN sysroot_lookup
           THEN crate_list' = crate_list /\ sysroot_lookup' = sysroot_lookup
           ELSE /\ Len(crate_list') = Len(crate_list) + 8
                /\ SubSeq(crate_list', 1, Len(crate_list)) = crate_list
                /\ DOMAIN sysroot_lookup' = DOMAIN sysroot_lookup \cup {sr}

\* C4: the first reference to a non-empty sysroot path appends exactly one
\* set of the 8 built-in crates, a later reference to it appends no record
\* and changes no entry of its table, and every path has its own set.
C4_SysrootIdempotence ==
    /\ [](\A sr \in DOMAIN sysroot_lookup : OneSysrootSet(sr))
    /\ [][SysrootReference /\ TablesKept]_vars

\* Two sysroot paths are in use and two crates with a record share one.
C4_Witness ==
    /\ Cardinality(DOMAIN sysroot_lookup) = 2
    /\ \E A, B \in DiscoveredRoots :
          /\ A /= B
          /\ HasRecord(A) /\ HasRecord(B)
          /\ SysrootOfCrate(A) = SysrootOfCrate(B)
          /\ SysrootOfCrate(A) /= ""

\* The built-in crates a built-in crate depends on, as the claims give them.
BuiltinDepsOf(n) ==
    IF n = "std" THEN {"alloc", "core", "panic_abort", "unwind"}
    ELSE IF n = "alloc" THEN {"core"}
    ELSE {}

\* C5: in every sysroot set the edges of std are exactly alloc, core,
\* panic_abort and unwind, those of alloc exactly core, no other built-in
\* crate has an edge, and every edge carries the handle the same sysroot's
\* table holds for its name, which is below the dependent's handle.
C5_SysrootEdges ==
    \A sr \in DOMAIN sysroot_lookup :
        \A n \in SysrootNames :
            /\ n \in DOMAIN sysroot_lookup[sr]
            /\ sysroot_lookup[sr][n] < Len(crate_list)
            /\ LET tbl == sysroot_lookup[sr]
                   c == crate_list[tbl[n] + 1]
               IN  /\ c.name = <<n>>
                   /\ Len(c.deps) = Cardinality(BuiltinDepsOf(n))
                   /\ {c.deps[k].name : k \in 1..Len(c.deps)}
                         = {<<d>> : d \in BuiltinDepsOf(n)}
                   /\ \A k \in 1..Len(c.deps) :
                         /\ c.deps[k].crate = tbl[c.deps[k].name[1]]
                         /\ c.deps[k].crate < c.index

\* Two sysroot sets exist, and std has its four edges in the second.
C5_Witness ==
    /\ Cardinality(DOMAIN sysroot_lookup) = 2
    /\ \E sr \in DOMAIN sysroot_lookup :
          /\ sysroot_lookup[sr]["core"] > 0
          /\ Len(crate_list[sysroot_lookup[sr]["std"] + 1].deps) = 4
          /\ Len(crate_list[sysroot_lookup[sr]["alloc"] + 1].deps) = 1

RECURSIVE Encounters(_)
RECURSIVE EncountersFrom(_, _)
\* The Rust targets met on the walk over the link dependencies of target t,
\* in the order met and as often as met: a dependency with Rust sources is
\* met and not entered, a group is entered, anything else is passed over.
EncountersFrom(deps, k) ==
    IF k > Len(deps) THEN <<>>
    ELSE (IF all_targets[deps[k]].rust THEN <<deps[k]>>
          ELSE IF IsPlainGroup(deps[k]) THEN Encounters(deps[k])
          ELSE <<>>)
         \o EncountersFrom(deps, k + 1)
Encounters(t) == EncountersFrom(all_targets[t].linked_deps, 1)

\* Position k of sequence s is the first one that holds s[k].
IsFirst(s, k) == \A j \in 1..(k - 1) : s[j] /= s[k]

\* Sequence r lists the elements of s once each, in the order of their first
\* positions in s.
FirstEncounterOrder(r, s) ==
    /\ {r[k] : k \in 1..Len(r)} = {s[k] : k \in 1..Len(s)}
    /\ \A a, b \in 1..Len(r) : a /= b => r[a] /= r[b]
    /\ \A a, b \in 1..Len(r) :
          a < b =>
              \E i, j \in 1..Len(s) :
                  /\ s[i] = r[a] /\ IsFirst(s, i)
                  /\ s[j] = r[b] /\ IsFirst(s, j)
                  /\ i < j

RootsOf(ts) == [k \in 1..Len(ts) |-> all_targets[ts[k]].crate_root]

\* C6: GetRustDeps yields, once each and in first-encounter order, exactly
\* the crate roots of the Rust targets reached over link dependencies through
\* any number of nested groups; a group gives no entry of its own, and
\* neither a Rust dependency nor a dependency that is no group is looked
\* through.
C6_GroupFlattening ==
    probe.fn = "GetRustDeps" =>
        /\ {probe.result[k] : k \in 1..Len(probe.result)}
              = {all_targets[u].crate_root : u \in RustNeighboursOf(probe.target)}
        /\ FirstEncounterOrder(probe.result, RootsOf(Encounters(probe.target)))

\* GetRustDeps has returned two crate roots for a target whose dependency is
\* a group that holds two Rust targets and nothing that is no Rust target.
C6_Witness ==
    /\ probe.fn = "GetRustDeps"
    /\ Len(probe.result) = 2
    /\ \E g \in DepSetOf(probe.target) :
          /\ IsPlainGroup(g)
          /\ DepSetOf(probe.target) = {g}
          /\ Cardinality(DepSetOf(g)) = 2
          /\ \A u \in DepSetOf(g) : all_targets[u].rust

\* C7: the edition of a crate is the text after the prefix of the first
\* argument that starts with `--edition=`; without one, the argument that
\* follows a standalone `--edition`; without that either, "2015".
C7_EditionExtraction ==
    probe.fn = "edition" =>
        probe.result = Some(ExpectedEdition(probe.compiler_args))

\* The edition has been read from a list in which a standalone `--edition`
\* with a value comes before an argument with the `--edition=` prefix, and
\* it is the text after the prefix.
C7_Witness ==
    /\ probe.fn = "edition"
    /\ EditionArgs(probe.compiler_args) /= {}
    /\ EditionFlags(probe.compiler_args) /= {}
    /\ FirstOf(EditionFlags(probe.compiler_args))
          < FirstOf(EditionArgs(probe.compiler_args))
    /\ probe.result = Some(<<"2021">>)

\* The compile-target triple the claim gives for an argument list: the
\* argument after a standalone `--target`, else the rest of an argument that
\* starts with `--target=`, else none.
TargetFlags(args) ==
    {k \in 1..(Len(args) - 1) : args[k] = <<"--target">>}
TargetArgs(args) ==
    {k \in 1..Len(args) : /\ Len(args[k]) >= 2
                          /\ args[k][1] = "--target"
                          /\ args[k][2] = "="}
ExpectedTarget(args) ==
    IF TargetFlags(args) /= {}
       THEN Some(args[FirstOf(TargetFlags(args)) + 1])
    ELSE IF TargetArgs(args) /= {}
       THEN Some(Tail(Tail(args[FirstOf(TargetArgs(args))])))
    ELSE None

\* C8: the compile-target triple of a crate is the argument that follows a
\* standalone `--target`; without one, the text after the prefix of an
\* argument that starts with `--target=`; without that either, it is absent.
C8_TargetTripleExtraction ==
    probe.fn = "compiler_target" =>
        probe.result = ExpectedTarget(probe.compiler_args)

\* C8, as the code has it: the triple is the argument that follows the first
\* standalone `--target` that has one, and is absent otherwise, whatever
\* arguments start with `--target=`.
C8_TargetFlagOnly ==
    probe.fn = "compiler_target" =>
        probe.result = (IF TargetFlags(probe.compiler_args) /= {}
                           THEN Some(probe.compiler_args[
                                  FirstOf(TargetFlags(probe.compiler_args)) + 1])
                        ELSE None)

\* The triple has been read from the one-argument list `--target=x86_64`
\* and is absent.
C8_Witness ==
    /\ probe.fn = "compiler_target"
    /\ probe.compiler_args = << <<"--target", "=", "x86_64">> >>
    /\ probe.result = None

\* One token read in state st = [depth, elem, top]: the token with its
\* nesting depth (the number of objects and arrays open before it), the
\* number of elements of the outermost array begun up to it and the key of
\* that element under which it stands, and the state after it.
AnnotateToken(t, st) ==
    LET opens == t.k = "punct" /\ t.s \in {<<"{">>, <<"[">>}
        closes == t.k = "punct" /\ t.s \in {<<"}">>, <<"]">>}
        begins == opens /\ st.depth = 2
        elem == IF begins THEN st.elem + 1 ELSE st.elem
        top == IF begins THEN <<>>
               ELSE IF t.k = "key" /\ st.depth = 3 THEN t.s
               ELSE st.top
        depth == IF opens THEN st.depth + 1
                 ELSE IF closes THEN st.depth - 1
                 ELSE st.depth
    IN  [acc |-> <<[tok |-> t, depth |-> st.depth, elem |-> elem,
                    top |-> top]>>,
         st |-> [depth |-> depth, elem |-> elem, top |-> top]]

RECURSIVE AnnotateRange(_, _, _, _)
\* The tokens lo..hi read from state st, the left half before the right.
AnnotateRange(tokens, lo, hi, st) ==
    IF lo > hi THEN [acc |-> <<>>, st |-> st]
    ELSE IF lo = hi THEN AnnotateToken(tokens[lo], st)
    ELSE LET mid == (lo + hi) \div 2
             left == AnnotateRange(tokens, lo, mid, st)
             right == AnnotateRange(tokens, mid + 1, hi, left.st)
         IN  [acc |-> left.acc \o right.acc, st |-> right.st]

\* The tokens of a written document, annotated.
Annotate(tokens) ==
    AnnotateRange(tokens, 1, Len(tokens),
                  [depth |-> 0, elem |-> 0, top |-> <<>>]).acc

\* The document is one object whose only key is `crates`, an array.
IsCratesDocument(doc) ==
    /\ Len(doc) >= 5
    /\ doc[1].tok = Punct("{") /\ doc[2].tok = Key("crates")
    /\ doc[3].tok = Punct("[")
    /\ doc[Len(doc) - 1].tok = Punct("]") /\ doc[Len(doc)].tok = Punct("}")
    /\ \A k \in 1..Len(doc) :
          doc[k].tok.k = "key" /\ doc[k].depth = 1 => k = 2
    /\ \A k \in 4..(Len(doc) - 2) : doc[k].depth >= 2

\* The number of elements of the `crates` array.
ElementCount(doc) == IF doc = <<>> THEN 0 ELSE doc[Len(doc)].elem

\* The names of the keys of element n of the `crates` array, in the order
\* written.
KeysOfElement(doc, n) ==
    LET keys == SelectSeq(doc, LAMBDA a : /\ a.elem = n
                                          /\ a.depth = 3
                                          /\ a.tok.k = "key")
    IN  [k \in 1..Len(keys) |-> keys[k].tok.s[1]]

\* The names of the keys written inside the value of key `top` of element n.
KeysUnder(doc, n, top) ==
    LET keys == SelectSeq(doc, LAMBDA a : /\ a.elem = n
                                          /\ a.depth = 4
                                          /\ a.top = <<top>>
                                          /\ a.tok.k = "key")
    IN  [k \in 1..Len(keys) |-> keys[k].tok.s]

\* The value tokens written for the keys named `name` at depth d of element
\* n under key `top`, in the order written.
ValuesUnder(doc, n, top, d, name) ==
    LET at == {k \in 1..(Len(doc) - 1) : /\ doc[k].elem = n
                                         /\ doc[k].depth = d
                                         /\ doc[k].top = <<top>>
                                         /\ doc[k].tok = Key(name)}
        vals == SelectSeq([k \in 1..Len(doc) |->
                              IF k - 1 \in at THEN <<doc[k].tok.s>> ELSE <<>>],
                          LAMBDA v : v /= <<>>)
    IN  [k \in 1..Len(vals) |-> vals[k][1]]

\* The value token written after the key `name` of element n.
ValueOfKey(doc, n, name) ==
    LET k == CHOOSE k \in 1..(Len(doc) - 1) :
                 /\ doc[k].elem = n /\ doc[k].depth = 3
                 /\ doc[k].tok = Key(name)
    IN  doc[k + 1].tok

HasEnvOrProcMacro(list) ==
    \E k \in 1..Len(list) : list[k].rustenv /= <<>> \/ list[k].proc_macro_path.has

\* C9: a crate list of N crates without environment entries and without
\* proc-macro paths is written as a `crates` array of N elements, one per
\* crate in list order, none of which has `env`, `is_proc_macro` or
\* `proc_macro_dylib_path` and each of which has `cfg`, whether the crate
\* has configuration flags or not.
C9_SerializationShape ==
    (pc = "done" /\ ~HasEnvOrProcMacro(crate_list)) =>
        LET doc == Annotate(out)
        IN  /\ IsCratesDocument(doc)
            /\ ElementCount(doc) = Len(crate_list)
            /\ \A n \in 1..Len(crate_list) :
                  LET keys == KeysOfElement(doc, n)
                      names == {keys[k] : k \in 1..Len(keys)}
                  IN  /\ ValueOfKey(doc, n, "crate_id")
                            = Num(crate_list[n].index)
                      /\ ValueOfKey(doc, n, "root_module")
                            = Str(<<"/abs/src/">> \o crate_list[n].root)
                      /\ names \cap {"env", "is_proc_macro",
                                     "proc_macro_dylib_path"} = {}
                      /\ "cfg" \in names

\* Two crates without environment entries and proc-macro paths have been
\* written, the first without configuration flags and the second with one.
C9_Witness ==
    /\ pc = "done"
    /\ Len(crate_list) = 2
    /\ ~HasEnvOrProcMacro(crate_list)
    /\ crate_list[1].configs = <<>>
    /\ crate_list[2].configs /= <<>>
    /\ ElementCount(Annotate(out)) = 2

\* The keys the claim gives for a crate, in its order.
ExpectedKeys(crate) ==
    <<"crate_id", "root_module", "label", "source">>
    \o (IF crate.compiler_target.has THEN <<"target">> ELSE <<>>)
    \o (IF crate.compiler_args /= <<>> THEN <<"compiler_args">> ELSE <<>>)
    \o <<"deps", "edition">>
    \o (IF crate.proc_macro_path.has
           THEN <<"is_proc_macro", "proc_macro_dylib_path">> ELSE <<>>)
    \o <<"cfg">>
    \o (IF crate.rustenv /= <<>> THEN <<"env">> ELSE <<>>)

\* C10: every crate is written with exactly the keys crate_id, root_module,
\* label, source (holding include_dirs and exclude_dirs), target if a triple
\* is set, compiler_args if there are arguments, deps with the edges in the
\* order they were added, edition, is_proc_macro and proc_macro_dylib_path
\* if a proc-macro path is set, cfg, and env if there is an environment
\* entry, in this order.
C10_SerializationKeyOrder ==
    pc = "done" =>
        LET doc == Annotate(out)
        IN  /\ ElementCount(doc) = Len(crate_list)
            /\ \A n \in 1..Len(crate_list) :
                  /\ KeysOfElement(doc, n) = ExpectedKeys(crate_list[n])
                  /\ KeysUnder(doc, n, "source")
                        = << <<"include_dirs">>, <<"exclude_dirs">> >>
                  /\ ValuesUnder(doc, n, "deps", 5, "crate")
                        = [k \in 1..Len(crate_list[n].deps) |->
                              <<ToString(crate_list[n].deps[k].crate)>>]
                  /\ ValuesUnder(doc, n, "deps", 5, "name")
                        = [k \in 1..Len(crate_list[n].deps) |->
                              crate_list[n].deps[k].name]

\* A crate with a triple, arguments, two edges, a proc-macro path, a flag and
\* an environment entry has been written after a crate that has none of them.
C10_Witness ==
    /\ pc = "done"
    /\ Len(crate_list) = 2
    /\ Len(ExpectedKeys(crate_list[1])) = 7
    /\ Len(ExpectedKeys(crate_list[2])) = 12
    /\ Len(crate_list[2].deps) = 2
    /\ Len(KeysOfElement(Annotate(out), 2)) = 12

\* Every record of the crate list has its position, counted from 0, as its
\* index, and an index held by lookup or by a sysroot table is the position
\* of the record of that crate.
IndexIsPosition ==
    /\ \A k \in 1..Len(crate_list) : crate_list[k].index = k - 1
    /\ \A r \in DOMAIN lookup :
          lookup[r].index.has =>
              /\ lookup[r].index.val + 1 \in 1..Len(crate_list)
              /\ crate_list[lookup[r].index.val + 1].root = r
    /\ \A s \in DOMAIN sysroot_lookup :
          \A c \in DOMAIN sysroot_lookup[s] :
              /\ sysroot_lookup[s][c] + 1 \in 1..Len(crate_list)
              /\ crate_list[sysroot_lookup[s][c] + 1].name = <<c>>

\* The crate list only grows at its end, and a record keeps its root and
\* index.
AppendOnly ==
    /\ Len(crate_list') >= Len(crate_list)
    /\ \A k \in 1..Len(crate_list) :
          /\ crate_list'[k].index = crate_list[k].index
          /\ crate_list'[k].root = crate_list[k].root

\* C11: in every state of the pass the record at position i of the crate
\* list, sysroot crate or discovered crate, has index i, so that indices are
\* unique, start at 0 and have no gaps; every append gives the new record
\* the size the list had before it.
C11_HandleEqualsPosition == []IndexIsPosition /\ [][AppendOnly]_vars

\* The pass has ended with the crates of a sysroot in the list and two
\* discovered crates after them.
C11_Witness ==
    /\ pc = "done"
    /\ DOMAIN sysroot_lookup /= {}
    /\ Cardinality({r \in DOMAIN lookup : lookup[r].index.has}) >= 2
    /\ \E r \in DOMAIN lookup :
          lookup[r].index.has /\ lookup[r].index.val = Len(crate_list) - 1

\* The crates to which record k has an edge.
EdgeTargets(k) ==
    {crate_list[k].deps[j].crate : j \in 1..Len(crate_list[k].deps)}

\* Record k of a discovered crate lacks the edge to a neighbour of its crate.
OmitsNeighbourEdge(k) ==
    /\ crate_list[k].root \in DiscoveredRoots
    /\ \E B \in NeighbourRoots(crate_list[k].root) :
          ~(HasRecord(B) /\ HandleOf(B) \in EdgeTargets(k))

\* C12: a neighbour without an index at the point where AddCrate records the
\* edges ends the pass in a fatal failure, so no run that completes has left
\* out the edge to a neighbour.
C12_UnassignedNeighbourFatal ==
    pc = "done" => \A k \in 1..Len(crate_list) : ~OmitsNeighbourEdge(k)

\* The pass has completed and written a crate whose record has no edge to
\* one of its neighbours, a crate that has a record of its own.
C12_Witness ==
    /\ pc = "done"
    /\ out /= <<>>
    /\ \E k \in 1..Len(crate_list) :
          /\ OmitsNeighbourEdge(k)
          /\ \A B \in NeighbourRoots(crate_list[k].root) : HasRecord(B)

\* Nothing of the pass has happened: no target was scanned, no crate was
\* registered or resolved, and nothing was rendered for the file.
NothingDone ==
    /\ scan_i = 1
    /\ pending = {}
    /\ lookup = EmptyMap
    /\ sysroot_lookup = EmptyMap
    /\ crate_list = <<>>
    /\ stack = <<>>
    /\ out = <<>>

\* C13: when the output file name cannot be resolved against the build
\* directory, RunAndWriteFiles fails before the discovery scan and before
\* any crate is resolved, nothing is written, and nothing happens after the
\* failure.
C13_PathResolutionFailure ==
    /\ [](pc = "failed" => NothingDone)
    /\ [][pc = "failed" => UNCHANGED vars]_vars
    /\ [][pc' = "failed" => pc = "start"]_vars

\* RunAndWriteFiles has failed on a graph that holds a Rust binary target.
C13_Witness ==
    /\ pc = "failed"
    /\ \E t \in 1..Len(all_targets) : IsRustBinary(all_targets[t])

RECURSIVE SameToolchainEncounters(_, _)
\* The crate roots met on the walks from the candidates t..n of crate r that
\* are in the toolchain of its main target, candidate after candidate in the
\* order of the scan.
SameToolchainEncounters(r, t) ==
    IF t > Len(all_targets) THEN <<>>
    ELSE (IF t \in CandidatesOf(r)
             /\ all_targets[t].toolchain = MainToolchainOf(r)
          THEN RootsOf(Encounters(t)) ELSE <<>>)
         \o SameToolchainEncounters(r, t + 1)

\* The crate roots only candidates of r in another toolchain depend on.
OtherToolchainOnly(r) ==
    {all_targets[u].crate_root :
        u \in UNION {RustNeighboursOf(c) :
                       c \in {c \in CandidatesOf(r) :
                                all_targets[c].toolchain /= MainToolchainOf(r)}}}
    \ (NeighbourRoots(r) \cup {r})

\* The discovered crates to which record k has an edge.
EdgeRoots(k) ==
    {crate_list[h + 1].root : h \in EdgeTargets(k)} \cap DiscoveredRoots

\* C14: the neighbours AddCrate gathers for a crate are the crate roots that
\* GetRustDeps gives for the candidates in the toolchain of the main target,
\* once each in the order met (those of a same-toolchain test-only candidate
\* included); a crate that only candidates of another toolchain depend on is
\* neither resolved from this crate nor the end of an edge of its record.
C14_SameToolchainNeighbours ==
    /\ \A k \in 1..Len(stack) :
          stack[k].at = "deps" =>
              FirstEncounterOrder(stack[k].crate_deps,
                  SameToolchainEncounters(stack[k].crate_root, 1))
    /\ \A k \in 1..(Len(stack) - 1) :
          stack[k + 1].crate_root \in NeighbourRoots(stack[k].crate_root)
    /\ \A k \in 1..Len(crate_list) :
          crate_list[k].root \in DiscoveredRoots =>
              EdgeRoots(k) \subseteq NeighbourRoots(crate_list[k].root)

\* The pass has completed with a crate that has a candidate in another
\* toolchain than its main target, which alone depends on a second
\* discovered crate, and whose record has no edge to a discovered crate.
C14_Witness ==
    /\ pc = "done"
    /\ \E k \in 1..Len(crate_list) :
          /\ crate_list[k].root \in DiscoveredRoots
          /\ OtherToolchainOnly(crate_list[k].root) \cap DiscoveredRoots /= {}
          /\ EdgeRoots(k) = {}

RECURSIVE CfgValuesOf(_, _)
\* The text after `--cfg=` of every argument from position k on that starts
\* with it.
CfgValuesOf(args, k) ==
    IF k > Len(args) THEN <<>>
    ELSE (IF Len(args[k]) >= 2 /\ args[k][1] = "--cfg" /\ args[k][2] = "="
          THEN <<Tail(Tail(args[k]))>> ELSE <<>>)
         \o CfgValuesOf(args, k + 1)

RECURSIVE ArgsOfConfigs(_, _)
\* The rustflags of the config values cv, one after the other.
ArgsOfConfigs(cv, k) ==
    IF k > Len(cv) THEN <<>>
    ELSE cv[k].rustflags \o ArgsOfConfigs(cv, k + 1)

ArgsOfTarget(t) == ArgsOfConfigs(all_targets[t].config_values, 1)

RECURSIVE SameToolchainCfgs(_, _)
\* The `--cfg=` values of the candidates t..n of crate r that are in the
\* toolchain of its main target, in the order of the scan.
SameToolchainCfgs(r, t) ==
    IF t > Len(all_targets) THEN <<>>
    ELSE (IF t \in CandidatesOf(r)
             /\ all_targets[t].toolchain = MainToolchainOf(r)
          THEN CfgValuesOf(ArgsOfTarget(t), 1) ELSE <<>>)
         \o SameToolchainCfgs(r, t + 1)

\* C15: the cfg list of a discovered crate is "test", "debug_assertions",
\* the `--cfg=` values of the main target's arguments, and then the `--cfg=`
\* values of every candidate in the main target's toolchain, the main target
\* among them, in candidate order and with duplicates kept.
C15_ConfigurationFlags ==
    \A k \in 1..Len(crate_list) :
        crate_list[k].root \in DiscoveredRoots =>
            crate_list[k].configs
               = << <<"test">>, <<"debug_assertions">> >>
                 \o CfgValuesOf(crate_list[k].compiler_args, 1)
                 \o SameToolchainCfgs(crate_list[k].root, 1)

\* C15, as the code has it: the cfg list of a discovered crate is "test",
\* "debug_assertions" and the `--cfg=` values of the main target's
\* arguments; the candidates add nothing.
C15_MainTargetFlagsOnly ==
    \A k \in 1..Len(crate_list) :
        crate_list[k].root \in DiscoveredRoots =>
            crate_list[k].configs
               = << <<"test">>, <<"debug_assertions">> >>
                 \o CfgValuesOf(crate_list[k].compiler_args, 1)

\* A crate whose main target is a library with `--cfg=feature_a` and whose
\* test target in the same toolchain has `--cfg=feature_b` has its record,
\* and feature_b is not among its flags.
C15_Witness ==
    \E k \in 1..Len(crate_list) :
        /\ crate_list[k].root \in DiscoveredRoots
        /\ SameToolchainCfgs(crate_list[k].root, 1)
              = << <<"feature_a">>, <<"feature_b">> >>
        /\ crate_list[k].configs
              = << <<"test">>, <<"debug_assertions">>, <<"feature_a">> >>

\* The main target of crate r as the claims give it: the first, in the order
\* of the scan, of its candidates with the maximal score.
FirstBestOf(r) == CHOOSE t \in BestOf(r) : \A u \in BestOf(r) : t <= u

\* The built-in crates a crate made from main target t depends on.
SysrootEdgeNames(t) ==
    IF all_targets[t].tool.sysroot = "" THEN <<>>
    ELSE <<"core", "alloc", "std">>
         \o (IF all_targets[t].tool.name = kRsToolMacro
                THEN <<"proc_macro">> ELSE <<>>)

\* The sysroots named by the main targets of the crates AddCrate has entered.
SysrootsReferred ==
    {all_targets[FirstBestOf(r)].tool.sysroot :
        r \in {r \in DOMAIN lookup : lookup[r].seen}} \ {""}

\* C16: the edges of a discovered crate whose main target's tool names a
\* sysroot begin with core, alloc and std of that sysroot, in this order and
\* with the indices its table holds, then proc_macro exactly if the tool is
\* the proc-macro tool, and only then the edges to neighbours; a crate whose
\* tool names no sysroot has no edge to a built-in crate, and no sysroot is
\* made for it.
C16_SysrootEdgesOfCrate ==
    /\ DOMAIN sysroot_lookup = SysrootsReferred
    /\ \A k \in 1..Len(crate_list) :
          crate_list[k].root \in DiscoveredRoots =>
              LET c == crate_list[k]
                  t == FirstBestOf(c.root)
                  names == SysrootEdgeNames(t)
                  tbl == sysroot_lookup[all_targets[t].tool.sysroot]
              IN  /\ Len(c.deps) >= Len(names)
                  /\ \A j \in 1..Len(names) :
                        /\ c.deps[j].name = <<names[j]>>
                        /\ c.deps[j].crate = tbl[names[j]]
                  /\ \A j \in (Len(names) + 1)..Len(c.deps) :
                        crate_list[c.deps[j].crate + 1].root \in DiscoveredRoots

\* The pass has completed with a proc-macro crate whose edges are core,
\* alloc, std, proc_macro and then a neighbour, and with a crate without
\* sysroot that has no edge.
C16_Witness ==
    /\ pc = "done"
    /\ \E k \in 1..Len(crate_list) :
          /\ crate_list[k].root \in DiscoveredRoots
          /\ Len(SysrootEdgeNames(FirstBestOf(crate_list[k].root))) = 4
          /\ Len(crate_list[k].deps) = 5
    /\ \E k \in 1..Len(crate_list) :
          /\ crate_list[k].root \in DiscoveredRoots
          /\ SysrootEdgeNames(FirstBestOf(crate_list[k].root)) = <<>>
          /\ crate_list[k].deps = <<>>

\* The positions of `=` in an environment entry.
EqualsIn(entry) == {j \in 1..Len(entry) : entry[j] = "="}

RECURSIVE ExpectedRustenv(_, _)
\* The (name, value) pairs the claims give for the environment entries from
\* position k on: an entry with `=` gives the text before the first `=` and
\* all the text after it, an entry without gives nothing.
ExpectedRustenv(rustenv, k) ==
    IF k > Len(rustenv) THEN <<>>
    ELSE (IF EqualsIn(rustenv[k]) = {} THEN <<>>
          ELSE LET e == FirstOf(EqualsIn(rustenv[k]))
               IN  << <<SubSeq(rustenv[k], 1, e - 1),
                        SubSeq(rustenv[k], e + 1, Len(rustenv[k]))>> >>)
         \o ExpectedRustenv(rustenv, k + 1)

\* C17: every entry of the main target's environment list that contains
\* `=` is recorded with the text before the first `=` as name and all the
\* text after the first `=` as value, whether the value holds `=` or not;
\* an entry without `=` is not recorded.
C17_EnvironmentParsing ==
    \A k \in 1..Len(crate_list) :
        crate_list[k].root \in DiscoveredRoots =>
            crate_list[k].rustenv
               = ExpectedRustenv(
                     all_targets[FirstBestOf(crate_list[k].root)]
                         .config_values[1].rustenv, 1)

\* The record of a crate whose main target has the environment entry
\* FLAGS=a=b holds FLAGS with the value a.
C17_Witness ==
    \E k \in 1..Len(crate_list) :
        /\ crate_list[k].root \in DiscoveredRoots
        /\ all_targets[FirstBestOf(crate_list[k].root)].config_values[1].rustenv
              = << <<"FLAGS", "=", "a", "=", "b">> >>
        /\ crate_list[k].rustenv = << << <<"FLAGS">>, <<"a">> >> >>

\* AddCrate is at its entry for a crate root whose seen flag is set.
ReEntry ==
    /\ pc = "resolve"
    /\ stack /= <<>>
    /\ stack[Len(stack)].at = "entry"
    /\ lookup[stack[Len(stack)].crate_root].seen

\* C18: AddCrate called for a crate root whose seen flag is set, the crate
\* finished or still in progress, returns at once and leaves the crate list,
\* every entry of lookup and every sysroot table as they were.
C18_ReEntryGuard ==
    [][ReEntry =>
          /\ stack' = SubSeq(stack, 1, Len(stack) - 1)
          /\ crate_list' = crate_list
          /\ lookup' = lookup
          /\ sysroot_lookup' = sysroot_lookup
          /\ pc' = pc]_vars

\* AddCrate is at its entry for a crate that is still in progress further
\* down the stack of calls, after another crate already got its record.
C18_Witness ==
    /\ ReEntry
    /\ ~lookup[stack[Len(stack)].crate_root].index.has
    /\ \E k \in 1..(Len(stack) - 1) :
          stack[k].crate_root = stack[Len(stack)].crate_root
    /\ crate_list /= <<>>

\* C19: over every graph of targets without a cycle of link dependencies
\* the pass that RenderJSON starts comes to its end, the crate list written,
\* whether the crates depend on each other in a cycle or not and however
\* deep the groups are nested.
C19_Termination == (pc = "scan") ~> (pc = "done")

\* C19, as the code has it: the pass that RenderJSON starts stops, either
\* with the crate list written or in the exception of lookup.at.
C19_PassStops == (pc = "scan") ~> (pc \in {"done", "terminated"})

\* AddCrate has stopped in the exception of lookup.at inside a recursive
\* call, with a crate already in the list.
C19_Witness ==
    /\ pc = "terminated"
    /\ Len(stack) >= 1
    /\ crate_list /= <<>>

\* An index is held only by an entry whose seen flag is set, and after the
\* pass every entry has its flag set and holds an index.
RegistryConsistent ==
    /\ \A r \in DOMAIN lookup : lookup[r].index.has => lookup[r].seen
    /\ pc = "done" =>
          \A r \in DOMAIN lookup : lookup[r].seen /\ lookup[r].index.has

\* A step of the resolution neither adds nor removes a key; no step unsets
\* a seen flag, and no step changes or takes away an index.
RegistryStep ==
    /\ pc = "resolve" => DOMAIN lookup' = DOMAIN lookup
    /\ \A r \in DOMAIN lookup :
          /\ r \in DOMAIN lookup'
          /\ lookup[r].seen => lookup'[r].seen
          /\ lookup[r].index.has => lookup'[r].index = lookup[r].index

\* C20: during the resolution no key of lookup is added or removed; the
\* seen flag of an entry goes from unset to set once, its index from absent
\* to assigned once, and neither changes afterwards; only an entry whose
\* flag is set gets an index; when the pass is complete every entry has its
\* flag set and an index.
C20_RegistryLifecycle == []RegistryConsistent /\ [][RegistryStep]_vars

\* The pass has completed over three crates, one of which holds a higher
\* index than a neighbour of it.
C20_Witness ==
    /\ pc = "done"
    /\ Cardinality(DOMAIN lookup) = 3
    /\ \E r, q \in DOMAIN lookup :
          /\ lookup[r].index.has /\ lookup[q].index.has
          /\ lookup[q].index.val < lookup[r].index.val
          /\ q \in NeighbourRoots(r)

\* What the claims name of a record: its index, root, name, edition,
\* arguments, flags, environment and edges.
Recorded(c) ==
    [index |-> c.index, root |-> c.root, name |-> c.name,
     edition |-> c.edition, compiler_args |-> c.compiler_args,
     configs |-> c.configs, rustenv |-> c.rustenv, deps |-> c.deps]

\* C21: after the call of AddCrate or AddSysrootCrate that appended a
\* record has returned, no step changes the index, root, name, edition,
\* arguments, flags, environment or edges of the record; a later append only
\* makes the list longer.
C21_RecordImmutability ==
    [][/\ Len(crate_list') >= Len(crate_list)
       /\ \A k \in 1..Len(crate_list) :
             Recorded(crate_list'[k]) = Recorded(crate_list[k])]_vars

\* The pass has completed with the crates of a sysroot and, appended after
\* them in calls of their own, two discovered crates, the second with edges.
C21_Witness ==
    /\ pc = "done"
    /\ Len(crate_list) >= 10
    /\ crate_list[Len(crate_list) - 1].root \in DiscoveredRoots
    /\ crate_list[Len(crate_list)].root \in DiscoveredRoots
    /\ crate_list[Len(crate_list)].deps /= <<>>

\* The discovery loop is over and the generation loop has not begun.
AfterScan ==
    /\ pc = "resolve"
    /\ stack = <<>>
    /\ pending = DOMAIN lookup
    /\ crate_list = <<>>

\* C22: after the scan lookup has an entry for a crate root exactly if some
\* target is binary, has Rust sources and has that crate root; the targets
\* of the entry are exactly those targets, in the order of the target list,
\* and at least one; no entry has its seen flag set or holds an index; a
\* group or a target without Rust sources makes no entry.
C22_DiscoveryScan ==
    AfterScan =>
        /\ DOMAIN lookup = DiscoveredRoots
        /\ \A r \in DOMAIN lookup :
              LET ts == lookup[r].targets
              IN  /\ Len(ts) >= 1
                  /\ {ts[j] : j \in 1..Len(ts)} = CandidatesOf(r)
                  /\ \A j \in 1..(Len(ts) - 1) : ts[j] < ts[j + 1]
                  /\ ~lookup[r].seen
                  /\ ~lookup[r].index.has

\* The scan is over a graph that holds an action with Rust sources, which
\* made no entry, and one crate root has two targets.
C22_Witness ==
    /\ AfterScan
    /\ \E t \in 1..Len(all_targets) :
          /\ all_targets[t].output_type = "action"
          /\ all_targets[t].rust
          /\ all_targets[t].crate_root \notin DOMAIN lookup
    /\ \E r \in DOMAIN lookup : Len(lookup[r].targets) = 2

\* C23: in every state, over any graph, an edge of a record with index k
\* names an index h below k that is the index of a record already in the
\* list; so no record has an edge to itself, and the edges make no cycle.
C23_EdgesPointBackwards ==
    \A k \in 1..Len(crate_list) :
        \A j \in 1..Len(crate_list[k].deps) :
            LET h == crate_list[k].deps[j].crate
            IN  /\ h < crate_list[k].index
                /\ h + 1 \in 1..Len(crate_list)
                /\ crate_list[h + 1].index = h
                /\ h + 1 < k

\* The pass has completed over crates that depend on each other in a cycle,
\* and a record has its sysroot edges and an edge to a discovered crate.
C23_Witness ==
    /\ pc = "done"
    /\ ~NeighbourAcyclic
    /\ \E k \in 1..Len(crate_list) :
          /\ crate_list[k].root \in DiscoveredRoots
          /\ EdgeRoots(k) /= {}
          /\ Len(crate_list[k].deps) >= 4

\* The crate roots GetRustDeps gives for the candidates of the discovered
\* crates that are no key of lookup.
UnregisteredNeighbours ==
    {all_targets[u].crate_root :
        u \in UNION {RustNeighboursOf(t) :
                       t \in UNION {CandidatesOf(r) : r \in DiscoveredRoots}}}
    \ DOMAIN lookup

\* C24: over any graph every crate root that GetRustDeps gives for a
\* candidate is a key the scan has made, so that lookup.at(dep) before the
\* recursive call never fails, also for a link dependency with Rust sources
\* that is no binary target.
C24_NeighbourRootsRegistered ==
    /\ pc /= "terminated"
    /\ pc \in {"resolve", "done"} => UnregisteredNeighbours = {}

\* C24, as the code has it: lookup.at fails only for a crate root that
\* GetRustDeps gave and the scan did not make a key.
C24_FailsOnUnregisteredOnly ==
    pc = "terminated" =>
        /\ stack /= <<>>
        /\ stack[Len(stack)].crate_deps[stack[Len(stack)].i]
              \in UnregisteredNeighbours

\* lookup.at has failed in AddCrate for the crate root of an action with
\* Rust sources on which a library depends.
C24_Witness ==
    /\ pc = "terminated"
    /\ stack /= <<>>
    /\ LET dep == stack[Len(stack)].crate_deps[stack[Len(stack)].i]
       IN  /\ dep \notin DOMAIN lookup
           /\ \E t \in 1..Len(all_targets) :
                 /\ all_targets[t].output_type = "action"
                 /\ all_targets[t].rust
                 /\ all_targets[t].crate_root = dep

\* A crate list without its numbering: for every record its root, name,
\* label, edition, arguments, triple, flags and environment, and its edges
\* in their order, each as the root and the name of the crate it leads to.
Unnumbered(list) ==
    { [root |-> list[k].root, name |-> list[k].name, label |-> list[k].label,
       edition |-> list[k].edition,
       compiler_args |-> list[k].compiler_args,
       compiler_target |-> list[k].compiler_target,
       configs |-> list[k].configs, rustenv |-> list[k].rustenv,
       edges |-> [j \in 1..Len(list[k].deps) |->
                     <<list[list[k].deps[j].crate + 1].root,
                       list[k].deps[j].name>>]] :
        k \in 1..Len(list) }

\* Two runs over the graph have completed.
BothRunsDone == pc = "done" /\ probe /= NoProbe

\* C25: two runs over one graph that differ only in the order in which
\* RenderJSON visits the crate roots give the same crates with the same
\* main target, name, edition, flags and environment and, with every edge
\* taken as the pair of the roots it joins, the same edges in the same
\* order; only the indices may differ.
C25_VisitOrderIndependence ==
    BothRunsDone => Unnumbered(crate_list) = Unnumbered(probe.crate_list)

\* C25, as the code has it: the two runs give the same crates and edges when
\* no crate reaches itself over the neighbour relation.
C25_IndependenceWithoutCycle ==
    (BothRunsDone /\ NeighbourAcyclic) =>
        Unnumbered(crate_list) = Unnumbered(probe.crate_list)

\* Two runs over a graph whose crates depend on each other in a cycle have
\* completed, with the crates in different orders and different edges.
C25_Witness ==
    /\ BothRunsDone
    /\ ~NeighbourAcyclic
    /\ Len(crate_list) = Len(probe.crate_list)
    /\ \E k \in 1..Len(crate_list) :
          crate_list[k].root /= probe.crate_list[k].root
    /\ Unnumbered(crate_list) /= Unnumbered(probe.crate_list)

\* The order in which AddSysroot appends the crates of one sysroot.
SysrootBlockOrder ==
    <<"core", "alloc", "panic_abort", "unwind",
      "std", "panic_unwind", "proc_macro", "test">>

\* A step in which a sysroot gets its table.
SysrootBlockAdded == DOMAIN sysroot_lookup' /= DOMAIN sysroot_lookup

\* The block added by such a step, for the AddCrate call `frame` that made
\* it, on a crate list of b crates.
SysrootBlockAt(b, frame) ==
    LET sr == frame.current_sysroot
        unrecorded == {frame.crate_root} \cup
                      {frame.crate_deps[i] : i \in 1..Len(frame.crate_deps)}
    IN  /\ sr /= ""
        /\ DOMAIN sysroot_lookup' = DOMAIN sysroot_lookup \cup {sr}
        /\ Len(crate_list') = b + Len(SysrootBlockOrder)
        /\ SubSeq(crate_list', 1, b) = crate_list
        /\ \A j \in 1..Len(SysrootBlockOrder) :
              LET c == crate_list'[b + j]
              IN  /\ c.name = <<SysrootBlockOrder[j]>>
                  /\ c.root[2] = sr
                  /\ c.index = b + j - 1
                  /\ sysroot_lookup'[sr][SysrootBlockOrder[j]] = b + j - 1
                  /\ c.edition = <<"2018">>
                  /\ c.configs = << <<"debug_assertions">> >>
        /\ \A r \in unrecorded :
              (\A k \in 1..b : crate_list[k].root /= r) =>
                  \A k \in 1..Len(crate_list') : crate_list'[k].root /= r

\* The crates of a sysroot come before every discovered crate that uses it.
SysrootBlockFirst ==
    \A k \in 1..Len(crate_list) :
        LET r == crate_list[k].root
        IN  (r \in DOMAIN lookup /\ SysrootOfCrate(r) /= "") =>
                /\ SysrootOfCrate(r) \in DOMAIN sysroot_lookup
                /\ \A n \in DOMAIN sysroot_lookup[SysrootOfCrate(r)] :
                      sysroot_lookup[SysrootOfCrate(r)][n] < crate_list[k].index

\* C26: when AddSysroot adds a sysroot that has no table yet to a crate list
\* of b crates, it appends exactly 8 crates with the indices b..b+7 in the
\* order core, alloc, panic_abort, unwind, std, panic_unwind, proc_macro,
\* test, each with edition "2018" and the one flag "debug_assertions", and
\* it does so before the crate that made the call and the neighbours
\* resolved in that call are recorded.
C26_SysrootBlockLayout ==
    /\ [][SysrootBlockAdded =>
            SysrootBlockAt(Len(crate_list), stack'[Len(stack')])]_vars
    /\ []SysrootBlockFirst

\* A run has completed in which two sysroots were added, the second one to
\* a crate list that already held the first block and a discovered crate.
C26_Witness ==
    /\ pc = "done"
    /\ Cardinality(DOMAIN sysroot_lookup) = 2
    /\ \E sr \in DOMAIN sysroot_lookup :
          sysroot_lookup[sr]["core"] > Len(SysrootBlockOrder)
    /\ \E k \in 1..Len(crate_list) :
          /\ crate_list[k].root \in DOMAIN lookup
          /\ SysrootOfCrate(crate_list[k].root) /= ""

====
